---- MODULE Spec2Model ----
(***************************************************************************)
(* VOUCH backend: the attestation pipeline (POST /api/prove), its rule     *)
(* engine and its canonicalizer, as a state machine over the database      *)
(* rows the pipeline reads and writes.                                     *)
(*                                                                         *)
(* Specifications:                                                         *)
(*   Spec          concurrent /api/prove requests against one database;    *)
(*   SpecCanon     buildProofPayload called twice on chosen arguments      *)
(*                 while the clock runs;                                   *)
(*   SpecEngine    one call of evaluateRule or validateConditions;         *)
(*   SpecMerkle    one call of computeMerkleRoot and an inclusion check;   *)
(*   SpecBatch     overlapping runs of the batch job against the proofs    *)
(*                 table and the registry contract (SpecBatchFair adds     *)
(*                 fairness of the runs and of the ledger);                *)
(*   SpecVerify    POST /api/prove and GET /api/prove/:id in a process     *)
(*                 started with or without its keys;                       *)
(*   SpecCipher    one call of signProof, or of encrypt and decrypt;       *)
(*   SpecOverflow  Spec for an agent whose counter is at the end of the    *)
(*                 INT range;                                              *)
(*   SpecGenerate  one call of generateProof while the clock runs;         *)
(*   SpecVisible   POST /api/prove transactions in flight while the batch  *)
(*                 job runs.                                               *)
(***************************************************************************)
EXTENDS Integers, Sequences, FiniteSets, TLC

VARIABLES
    now,                      \* Date.now() / the database clock, in ms
    privateKeyLoaded,         \* _privateKey !== null
    encryptionKeyLoaded,      \* _encryptionKey !== null
    used_proofs_this_month,   \* users.used_proofs_this_month, committed
    proof_nonce,              \* agents.proof_nonce, committed
    proofs,                   \* the proofs table, committed rows
    req,                      \* one record per in-flight /api/prove request
    used_at_start,            \* users.used_proofs_this_month in the initial state
    call,                     \* the call of a function checked on its own
    env,                      \* process.env of the batch job
    registry,                 \* storage of the VouchRegistry contract
    txs,                      \* transactions sent to the ledger, by position
    cycle,                    \* one record per run of batchProofsToChain
    faults                    \* failures of the environment so far

vars == <<now, privateKeyLoaded, encryptionKeyLoaded, used_proofs_this_month,
          proof_nonce, proofs, req, used_at_start, call,
          env, registry, txs, cycle, faults>>

dbVars == <<used_proofs_this_month, proof_nonce, proofs>>

jobVars == <<env, registry, txs, cycle, faults>>

-----------------------------------------------------------------------------
(* Bounds of the model.                                                    *)

NumReqs == 2        \* request slots (concurrent /api/prove requests)
MaxTicks == 1       \* seconds the clock may advance
HashSpace == 7      \* size of the modelled digest space
InitSlack == 1      \* an initial quota counter is InitSlack below the tier limit

-----------------------------------------------------------------------------
(* JavaScript values: number, string (a sequence of characters), boolean,  *)
(* array, and undefined/null for a missing field.                          *)

Num(n) == [type |-> "number", num |-> n]
Str(s) == [type |-> "string", str |-> s]
Bool(b) == [type |-> "boolean", bool |-> b]
Arr(a) == [type |-> "array", arr |-> a]
Null == [type |-> "null"]
\* a string used as an object key (a field name), kept whole
Key(name) == [type |-> "string", name |-> name]
NaN == [type |-> "NaN"]
\* a member every object inherits from Object.prototype (a function)
Inherited == [type |-> "function"]

Digits == <<"0", "1", "2", "3", "4", "5", "6", "7", "8", "9">>

DigitValue(c) == (CHOOSE i \in 1..10 : Digits[i] = c) - 1

IsDigit(c) == \E i \in 1..10 : Digits[i] = c

RECURSIVE NatToString(_)
NatToString(n) ==
    IF n < 10 THEN <<Digits[n + 1]>>
    ELSE NatToString(n \div 10) \o <<Digits[(n % 10) + 1]>>

RECURSIVE ParseDigits(_, _)
ParseDigits(s, acc) ==
    IF s = <<>> THEN acc
    ELSE ParseDigits(Tail(s), 10 * acc + DigitValue(Head(s)))

\* String(x) of a scalar
ScalarToString(x) ==
    CASE x.type = "string" -> x.str
      [] x.type = "number" ->
            IF x.num < 0 THEN <<"-">> \o NatToString(0 - x.num) ELSE NatToString(x.num)
      [] x.type = "boolean" ->
            IF x.bool THEN <<"t", "r", "u", "e">> ELSE <<"f", "a", "l", "s", "e">>
      [] OTHER -> <<>>

\* String(a) of an array: the string forms of its elements joined by ","
RECURSIVE JoinComma(_)
JoinComma(a) ==
    LET first == IF a[1].type = "array" THEN JoinComma(a[1].arr) ELSE ScalarToString(a[1])
    IN IF a = <<>> THEN <<>>
       ELSE IF Len(a) = 1 THEN first
       ELSE first \o <<",">> \o JoinComma(Tail(a))

\* String(x); a null inside an array joins as "", String(null) is "null"
JsString(x) ==
    IF x.type = "array" THEN JoinComma(x.arr)
    ELSE IF x.type = "null" THEN <<"n", "u", "l", "l">>
    ELSE ScalarToString(x)

\* Number(s) of a string: "" is 0, a run of digits (with an optional sign) is
\* its value, anything else is NaN
StringToNumber(s) ==
    IF s = <<>> THEN Num(0)
    ELSE IF \A i \in 1..Len(s) : IsDigit(s[i]) THEN Num(ParseDigits(s, 0))
    ELSE IF Head(s) = "-" /\ Len(s) > 1 /\ \A i \in 2..Len(s) : IsDigit(s[i])
         THEN Num(0 - ParseDigits(Tail(s), 0))
    ELSE NaN

\* Number(x)
JsNumber(x) ==
    CASE x.type = "number" -> x
      [] x.type = "boolean" -> IF x.bool THEN Num(1) ELSE Num(0)
      [] x.type = "string" -> StringToNumber(x.str)
      [] x.type = "array" -> StringToNumber(JoinComma(x.arr))
      [] x.type = "null" -> Num(0)
      [] OTHER -> NaN

\* a === b: same type and same value; two arrays are two objects
StrictEquals(a, b) == a.type # "array" /\ a = b

\* arr.includes(x)
Includes(a, x) == \E i \in 1..Len(a) : StrictEquals(a[i], x)

\* s.includes(t)
StringIncludes(s, t) ==
    \E i \in 0..(Len(s) - Len(t)) : \A j \in 1..Len(t) : s[i + j] = t[j]

-----------------------------------------------------------------------------
(* Rule engine.                                                            *)

VALID_OPS == {"=", "!=", "<", "<=", ">", ">=", "IN", "NOT IN", "CONTAINS", "NOT CONTAINS"}

MaxConditions == 20

\* A stored condition is a record; a key the JSON lacks is absent from its
\* DOMAIN (c.field, c.op, c.value read as undefined).
HasKey(c, k) == k \in DOMAIN c

\* the tests of the loop body on one element, in order: the first violation,
\* "ok", or "TypeError" (c.field of null cannot be read)
ConditionError(c) ==
    IF c = Null THEN "TypeError"
    ELSE IF ~(HasKey(c, "field") /\ c.field.type = "string" /\ c.field.name # "")
         THEN "'field' must be a non-empty string"
    ELSE IF ~(HasKey(c, "op") /\ c.op \in VALID_OPS) THEN "invalid operator"
    ELSE IF ~HasKey(c, "value") THEN "'value' is required"
    ELSE IF c.op \in {"IN", "NOT IN"} /\ c.value.type # "array"
         THEN "operator requires an array value"
    ELSE IF c.op \in {"<", "<=", ">", ">="} /\ c.value.type # "number"
         THEN "operator requires a numeric value"
    ELSE "ok"

ConditionOk(c) == ConditionError(c) = "ok"

\* the list-length test written with >= for >
validateConditionsOffByOne(conditions) ==
    LET bad == {i \in 1..Len(conditions) : ~ConditionOk(conditions[i])}
        first == CHOOSE i \in bad : \A j \in bad : i <= j
    IN IF Len(conditions) = 0
       THEN [valid |-> FALSE, raised |-> FALSE, error |-> <<"Conditions must be a non-empty array">>]
       ELSE IF Len(conditions) >= MaxConditions
       THEN [valid |-> FALSE, raised |-> FALSE, error |-> <<"Maximum 20 conditions per rule">>]
       ELSE IF bad = {} THEN [valid |-> TRUE, raised |-> FALSE]
       ELSE IF ConditionError(conditions[first]) = "TypeError"
       THEN [valid |-> FALSE, raised |-> TRUE]
       ELSE [valid |-> FALSE, raised |-> FALSE,
             error |-> <<"Condition", first - 1, ConditionError(conditions[first])>>]

\* the outcome of the call: valid, a single violation (of the first element
\* that fails a test, named by its 0-based index), or a TypeError raised
validateConditions(conditions) ==
    LET bad == {i \in 1..Len(conditions) : ~ConditionOk(conditions[i])}
        first == CHOOSE i \in bad : \A j \in bad : i <= j
    IN IF Len(conditions) = 0
       THEN [valid |-> FALSE, raised |-> FALSE, error |-> <<"Conditions must be a non-empty array">>]
       ELSE IF Len(conditions) > MaxConditions
       THEN [valid |-> FALSE, raised |-> FALSE, error |-> <<"Maximum 20 conditions per rule">>]
       ELSE IF bad = {} THEN [valid |-> TRUE, raised |-> FALSE]
       ELSE IF ConditionError(conditions[first]) = "TypeError"
       THEN [valid |-> FALSE, raised |-> TRUE]
       ELSE [valid |-> FALSE, raised |-> FALSE,
             error |-> <<"Condition", first - 1, ConditionError(conditions[first])>>]

\* names every object inherits from Object.prototype
ObjectPrototype ==
    {"constructor", "toString", "valueOf", "hasOwnProperty", "isPrototypeOf",
     "propertyIsEnumerable", "toLocaleString", "__proto__"}

\* actionData[cond.field], a property read: the record's own entry, else the
\* member inherited from Object.prototype, else undefined
Lookup(actionData, field) ==
    IF field \in DOMAIN actionData THEN actionData[field]
    ELSE IF field \in ObjectPrototype THEN Inherited
    ELSE Null

NumLess(a, b) == a.type = "number" /\ b.type = "number" /\ a.num < b.num

\* <= written as <
NumLessEqStrict(a, b) == a.type = "number" /\ b.type = "number" /\ a.num < b.num

NumLessEq(a, b) == a.type = "number" /\ b.type = "number" /\ a.num <= b.num

OpPass(op, actual, value) ==
    CASE op = "=" -> StrictEquals(actual, value)
      [] op = "!=" -> ~StrictEquals(actual, value)
      [] op = "<" -> NumLess(JsNumber(actual), JsNumber(value))
      [] op = "<=" -> NumLessEq(JsNumber(actual), JsNumber(value))
      [] op = ">" -> NumLess(JsNumber(value), JsNumber(actual))
      [] op = ">=" -> NumLessEq(JsNumber(value), JsNumber(actual))
      [] op = "IN" -> value.type = "array" /\ Includes(value.arr, actual)
      [] op = "NOT IN" -> value.type = "array" /\ ~Includes(value.arr, actual)
      [] op = "CONTAINS" ->
            actual.type = "string" /\ StringIncludes(actual.str, JsString(value))
      [] op = "NOT CONTAINS" ->
            actual.type = "string" /\ ~StringIncludes(actual.str, JsString(value))
      [] OTHER -> FALSE

EvalCondition(cond, actionData) ==
    LET actual == Lookup(actionData, cond.field.name) IN
    IF actual = Null
    THEN [field |-> cond.field, op |-> cond.op, expected |-> cond.value,
          actual |-> Null, pass |-> FALSE]
    ELSE [field |-> cond.field, op |-> cond.op, expected |-> cond.value,
          actual |-> actual, pass |-> OpPass(cond.op, actual, cond.value)]

\* rule_met taken as "some condition passes"
evaluateRuleAny(conditions, actionData) ==
    LET results == [i \in 1..Len(conditions) |-> EvalCondition(conditions[i], actionData)]
        passed == Cardinality({i \in 1..Len(results) : results[i].pass})
        total == Len(results)
        rule_met == total > 0 /\ \E i \in 1..total : results[i].pass
        plural == IF total > 1 THEN "conditions" ELSE "condition"
    IN [rule_met |-> rule_met,
        evaluation |-> results,
        summary |-> IF rule_met
                    THEN <<"All", total, plural, "passed">>
                    ELSE <<total - passed, "of", total, plural, "failed">>]

\* the summary counting the conditions that passed
evaluateRuleCountsPassed(conditions, actionData) ==
    LET results == [i \in 1..Len(conditions) |-> EvalCondition(conditions[i], actionData)]
        passed == Cardinality({i \in 1..Len(results) : results[i].pass})
        total == Len(results)
        rule_met == total > 0 /\ \A i \in 1..total : results[i].pass
        plural == IF total > 1 THEN "conditions" ELSE "condition"
    IN [rule_met |-> rule_met,
        evaluation |-> results,
        summary |-> IF rule_met
                    THEN <<"All", total, plural, "passed">>
                    ELSE <<passed, "of", total, plural, "failed">>]

\* the evaluation listing only the conditions that failed
evaluateRuleFailuresOnly(conditions, actionData) ==
    LET results == [i \in 1..Len(conditions) |-> EvalCondition(conditions[i], actionData)]
        passed == Cardinality({i \in 1..Len(results) : results[i].pass})
        total == Len(results)
        rule_met == total > 0 /\ \A i \in 1..total : results[i].pass
        plural == IF total > 1 THEN "conditions" ELSE "condition"
    IN [rule_met |-> rule_met,
        evaluation |-> SelectSeq(results, LAMBDA res : ~res.pass),
        summary |-> IF rule_met
                    THEN <<"All", total, plural, "passed">>
                    ELSE <<total - passed, "of", total, plural, "failed">>]

evaluateRule(conditions, actionData) ==
    LET results == [i \in 1..Len(conditions) |-> EvalCondition(conditions[i], actionData)]
        passed == Cardinality({i \in 1..Len(results) : results[i].pass})
        total == Len(results)
        rule_met == total > 0 /\ \A i \in 1..total : results[i].pass
        plural == IF total > 1 THEN "conditions" ELSE "condition"
    IN [rule_met |-> rule_met,
        evaluation |-> results,
        summary |-> IF rule_met
                    THEN <<"All", total, plural, "passed">>
                    ELSE <<total - passed, "of", total, plural, "failed">>]

-----------------------------------------------------------------------------
(* Canonicalizer, hasher, signer, envelope cipher.                         *)

MsPerSecond == 1000

\* Object.keys(payload).sort()
PayloadKeys == <<"action", "agent", "conditions", "eval", "met", "nonce", "rule", "ts", "v">>

\* JSON.stringify(obj, allow) of one object: an array replacer is a property
\* list, so the members written are the listed keys the object has, in list
\* order, and the same list applies to every nested object.
StringifyObject(obj, allow) ==
    LET present == SelectSeq(allow, LAMBDA k : k \in DOMAIN obj)
    IN [i \in 1..Len(present) |-> <<present[i], obj[present[i]]>>]

buildProofPayload(agentId, ruleId, conditions, actionData, evaluation, ruleMet, nonce, dateNow) ==
    LET keys == PayloadKeys
        payload ==
            [v |-> 1,
             agent |-> agentId,
             rule |-> ruleId,
             conditions |-> [i \in 1..Len(conditions) |-> StringifyObject(conditions[i], keys)],
             action |-> StringifyObject(actionData, keys),
             eval |-> [i \in 1..Len(evaluation) |-> StringifyObject(evaluation[i], keys)],
             met |-> ruleMet,
             nonce |-> nonce,
             ts |-> dateNow \div MsPerSecond]
    IN StringifyObject(payload, keys)

\* The identifiers the model uses, for the byte content of an id string.
IdStrings == <<"a1", "a2", "a3", "r0", "r1", "r2", "r3", "r4", "r5", "r6">>

IdCode(s) == CHOOSE i \in 1..Len(IdStrings) : IdStrings[i] = s

ValueCode(x) ==
    CASE x.type = "number" -> x.num
      [] x.type = "string" -> Len(x.str)
      [] x.type = "boolean" -> IF x.bool THEN 1 ELSE 0
      [] x.type = "array" -> Len(x.arr)
      [] OTHER -> 0

RECURSIVE MembersCode(_)
MembersCode(members) ==
    IF members = <<>> THEN 0
    ELSE 1 + ValueCode(Head(members)[2]) + MembersCode(Tail(members))

\* Keccak-256 of the string, as a function into a finite digest space: equal
\* strings have equal digests, and distinct strings may collide.
hashPayload(normalized) ==
    LET field(k) == (CHOOSE i \in 1..Len(normalized) : normalized[i][1] = k)
        val(k) == normalized[field(k)][2]
    IN (MembersCode(val("action")) + 2 * IdCode(val("agent")) + 3 * Len(val("conditions"))
        + 5 * Len(val("eval")) + (IF val("met") THEN 1 ELSE 0) + 3 * (val("nonce") % HashSpace)
        + IdCode(val("rule")) + 4 * val("ts") + val("v")) % HashSpace

\* Strings are sequences of characters; bytes are numbers 0..255.
HexDigits == <<"0", "1", "2", "3", "4", "5", "6", "7", "8", "9", "a", "b", "c", "d", "e", "f">>

UpperHexDigits == <<"0", "1", "2", "3", "4", "5", "6", "7", "8", "9", "A", "B", "C", "D", "E", "F">>

IsHex(c) == \E i \in 1..16 : HexDigits[i] = c \/ UpperHexDigits[i] = c

\* the value of a hex digit of either case
HexValue(c) == (CHOOSE i \in 1..16 : HexDigits[i] = c \/ UpperHexDigits[i] = c) - 1

\* n.toString(16)
RECURSIVE NatToHex(_)
NatToHex(n) ==
    IF n < 16 THEN <<HexDigits[n + 1]>>
    ELSE NatToHex(n \div 16) \o <<HexDigits[(n % 16) + 1]>>

\* s.padStart(width, c)
\* no padding at all
PadNone(str, width, c) == str

PadStart(str, width, c) ==
    IF Len(str) >= width THEN str ELSE [i \in 1..(width - Len(str)) |-> c] \o str

\* buf.toString('hex'): two lowercase digits per byte
BytesToHex(bytes) ==
    [i \in 1..(2 * Len(bytes)) |->
        IF i % 2 = 1 THEN HexDigits[(bytes[(i + 1) \div 2] \div 16) + 1]
        ELSE HexDigits[(bytes[i \div 2] % 16) + 1]]

\* Buffer.from(str, 'hex'): digits of either case, pair by pair, ending at the
\* first pair that is not two hex digits (a last odd digit is dropped)
HexToBytes(str) ==
    LET pairs == {n \in 0..(Len(str) \div 2) : \A i \in 1..(2 * n) : IsHex(str[i])}
        n == CHOOSE m \in pairs : \A k \in pairs : k <= m
    IN [i \in 1..n |-> 16 * HexValue(str[2 * i - 1]) + HexValue(str[2 * i])]

\* the characters of the model with one-byte UTF-8 encodings, and their codes
AsciiChars ==
    <<"0", "1", "2", "3", "4", "5", "6", "7", "8", "9", "a", "b", "c", "d", "e", "f",
      "A", "B", "C", "D", "E", "F", "x", "z", ":">>

AsciiIndex(c) == CHOOSE i \in 1..Len(AsciiChars) : AsciiChars[i] = c

IsAscii(c) == \E i \in 1..Len(AsciiChars) : AsciiChars[i] = c

\* UTF-8 of one UTF-16 code unit standing alone: an ASCII character is one
\* byte, U+00E9 is two, and a lone surrogate is written as U+FFFD
Utf8OfChar(c) ==
    IF IsAscii(c) THEN <<AsciiIndex(c)>>
    ELSE IF c = "U+00E9" THEN <<195, 169>>
    ELSE <<239, 191, 189>>

\* Buffer.from(str, 'utf8')
RECURSIVE Utf8Encode(_)
Utf8Encode(str) ==
    IF str = <<>> THEN <<>>
    ELSE IF Len(str) = 1 THEN Utf8OfChar(str[1])
    ELSE LET half == Len(str) \div 2
         IN Utf8Encode(SubSeq(str, 1, half)) \o Utf8Encode(SubSeq(str, half + 1, Len(str)))

\* buf.toString('utf8'): bytes that are no valid sequence decode to U+FFFD
RECURSIVE Utf8Decode(_)
Utf8Decode(bytes) ==
    IF bytes = <<>> THEN <<>>
    ELSE IF Head(bytes) \in 1..Len(AsciiChars)
         THEN <<AsciiChars[Head(bytes)]>> \o Utf8Decode(Tail(bytes))
    ELSE IF Len(bytes) >= 2 /\ SubSeq(bytes, 1, 2) = <<195, 169>>
         THEN <<"U+00E9">> \o Utf8Decode(SubSeq(bytes, 3, Len(bytes)))
    ELSE IF Len(bytes) >= 3 /\ SubSeq(bytes, 1, 3) = <<239, 191, 189>>
         THEN <<"U+FFFD">> \o Utf8Decode(SubSeq(bytes, 4, Len(bytes)))
    ELSE <<"U+FFFD">> \o Utf8Decode(Tail(bytes))

RECURSIVE SumBytes(_)
SumBytes(bytes) ==
    IF bytes = <<>> THEN 0
    ELSE IF Len(bytes) = 1 THEN bytes[1]
    ELSE LET half == Len(bytes) \div 2
         IN SumBytes(SubSeq(bytes, 1, half)) + SumBytes(SubSeq(bytes, half + 1, Len(bytes)))

\* secp256k1.sign (RFC 6979): r, s and the recovery bit are functions of the
\* digest and the key
Secp256k1Sign(proofHash) ==
    [r |-> 255 * proofHash + 16, s |-> proofHash + 10, recovery |-> proofHash % 2]

\* the signature string: "0x", r and s as 64 hex digits each, and v
signProof(proofHash) ==
    LET sig == Secp256k1Sign(proofHash)
        r == PadStart(NatToHex(sig.r), 64, "0")
        s == PadStart(NatToHex(sig.s), 64, "0")
        v == IF sig.recovery = 0 THEN <<"1", "b">> ELSE <<"1", "c">>
    IN <<"0", "x">> \o r \o s \o v

IvLength == 12

TagLength == 16

\* randomBytes(12): the iv drawn, as twelve bytes
IvBytes(iv) == [i \in 1..IvLength |-> iv]

\* AES-256-GCM under the loaded key: the keystream is a function of the iv,
\* the tag a function of the iv and the ciphertext
KeyStream(iv, i) == (7 * SumBytes(iv) + 31 * Len(iv) + 13 * i + 5) % 256

GcmEncrypt(iv, bytes) == [i \in 1..Len(bytes) |-> (bytes[i] + KeyStream(iv, i)) % 256]

GcmDecrypt(iv, bytes) == [i \in 1..Len(bytes) |-> (bytes[i] + 256 - KeyStream(iv, i)) % 256]

\* the sum of the bytes at positions start, start + step, ...
RECURSIVE ResidueSum(_, _, _)
ResidueSum(bytes, start, step) ==
    IF start > Len(bytes) THEN 0 ELSE bytes[start] + ResidueSum(bytes, start + step, step)

\* the 16-byte tag: a keyed function of the iv and the ciphertext under which
\* no two of the model's (iv, ciphertext) pairs share a tag (the lengths, the
\* ciphertext bytes and the iv bytes all enter it)
GcmTag(iv, ciphertext) ==
    [k \in 1..TagLength |->
        (11 * k + (IF k = 1 THEN Len(ciphertext)
                   ELSE IF k <= 6 THEN ResidueSum(ciphertext, k - 1, 5)
                   ELSE IF k = 7 THEN Len(iv)
                   ELSE ResidueSum(iv, k - 7, 18) + 3 * ResidueSum(iv, k + 2, 18))) % 256]

\* iv:authTag:ciphertext, all hex
encrypt(plaintext, iv) ==
    LET ivBytes == IvBytes(iv)
        encrypted == GcmEncrypt(ivBytes, Utf8Encode(plaintext))
        tag == GcmTag(ivBytes, encrypted)
    IN BytesToHex(ivBytes) \o <<":">> \o BytesToHex(tag) \o <<":">> \o BytesToHex(encrypted)

\* str.split(':')
RECURSIVE Split(_)
Split(str) ==
    IF \A i \in 1..Len(str) : str[i] # ":" THEN <<str>>
    ELSE LET k == CHOOSE i \in 1..Len(str) :
                     str[i] = ":" /\ \A j \in 1..(i - 1) : str[j] # ":"
         IN <<SubSeq(str, 1, k - 1)>> \o Split(SubSeq(str, k + 1, Len(str)))

\* tag lengths setAuthTag takes when the decipher was created without
\* authTagLength: 16 bytes always, the shorter GCM lengths on runtimes that
\* still accept them
TagLengths(shortTags) == IF shortTags THEN {4, 8, 12, 13, 14, 15, 16} ELSE {TagLength}

\* decrypt: the plaintext, or an Error raised (wrong number of parts, empty
\* iv, tag of a length not taken, authentication failed)
decrypt(encrypted, shortTags) ==
    LET parts == Split(encrypted)
        iv == HexToBytes(parts[1])
        tag == HexToBytes(parts[2])
        ciphertext == HexToBytes(parts[3])
    IN IF Len(parts) # 3 THEN [raised |-> TRUE]
       ELSE IF iv = <<>> THEN [raised |-> TRUE]
       ELSE IF Len(tag) \notin TagLengths(shortTags) THEN [raised |-> TRUE]
       ELSE IF tag # SubSeq(GcmTag(iv, ciphertext), 1, Len(tag)) THEN [raised |-> TRUE]
       ELSE [raised |-> FALSE, plaintext |-> Utf8Decode(GcmDecrypt(iv, ciphertext))]

\* Date.now() is read twice: by buildProofPayload (dateNow) and again for the
\* timestamp of the result (dateNowAtReturn)
generateProof(agentId, ruleId, conditions, actionData, evaluation, ruleMet, nonce, dateNow, dateNowAtReturn, iv) ==
    LET payload == buildProofPayload(agentId, ruleId, conditions, actionData,
                                     evaluation, ruleMet, nonce, dateNow)
        proofHash == hashPayload(payload)
        signature == signProof(proofHash)
        signatureEncrypted == encrypt(signature, iv)
    IN [proof_hash |-> proofHash,
        signature_encrypted |-> signatureEncrypted,
        nonce |-> nonce,
        timestamp |-> dateNowAtReturn \div MsPerSecond]

-----------------------------------------------------------------------------
(* The rows the pipeline reads but never writes.                           *)

TIERS ==
    [free |-> [monthly_limit |-> 10],
     starter |-> [monthly_limit |-> 1000],
     growth |-> [monthly_limit |-> 10000],
     enterprise |-> [monthly_limit |-> 100000]]

Users == {"u1", "u2"}

\* users.tier
UserTier == [u1 |-> "free", u2 |-> "starter"]

Agents == {"a1", "a2", "a3"}

\* agents.user_id: a1 and a2 belong to one principal
AgentUser == [a1 |-> "u1", a2 |-> "u1", a3 |-> "u2"]

AmountAtMost5 == [field |-> Key("amount"), op |-> "<=", value |-> Num(5)]

NonceAbove0 == [field |-> Key("nonce"), op |-> ">", value |-> Num(0)]

\* the rules table: r3 is archived, r4 has lost its conditions, r6 is another
\* principal's rule that is archived and has lost its conditions
rules ==
    [r1 |-> [agent_id |-> "a1", conditions |-> <<AmountAtMost5>>, status |-> "active"],
     r2 |-> [agent_id |-> "a2", conditions |-> <<AmountAtMost5, NonceAbove0>>, status |-> "active"],
     r3 |-> [agent_id |-> "a1", conditions |-> <<>>, status |-> "archived"],
     r4 |-> [agent_id |-> "a1", conditions |-> <<>>, status |-> "active"],
     r5 |-> [agent_id |-> "a3", conditions |-> <<AmountAtMost5>>, status |-> "active"],
     r6 |-> [agent_id |-> "a3", conditions |-> <<>>, status |-> "archived"]]

\* the requests sent: <<agent of the API key, rule_id>>; r0 names no row.
\* a1 asks for every rule, a2 and a3 for their own and for a missing one.
ProveInputs ==
    {<<"a1", id>> : id \in {"r0", "r1", "r2", "r3", "r4", "r6"}}
        \cup {<<"a2", "r2">>, <<"a3", "r5">>, <<"a3", "r0">>}

\* action_data a request may carry
ActionDatas == {[amount |-> Num(3)], [nonce |-> Num(9)]}

MaxIv == 0       \* the envelope cipher draws its iv from 0..MaxIv

IVs == 0..MaxIv

Reqs == 1..NumReqs

-----------------------------------------------------------------------------
(* The state machine of POST /api/prove.                                   *)

Idle == [pc |-> "idle"]

NumCycles == 2      \* runs of the batch job that may overlap
MaxBatch == 2       \* the batch limit (500 in the source), scaled

Cycles == 1..NumCycles

\* the environment of the batch job with BATCH_MAX_SIZE unset
DefaultEnv == [configured |-> TRUE, BATCH_MAX |-> MaxBatch]

\* the contract as deployed
EmptyRegistry == [proofExists |-> {}, batchCount |-> 0, batches |-> <<>>]

\* a run of the batch job that has not started
IdleCycle == [pc |-> "idle", outcome |-> "none", step |-> "none", unbatched |-> <<>>,
              merkleRoot |-> Null, tx |-> 0]

\* no batch job has run
NoJob ==
    /\ env = DefaultEnv
    /\ registry = EmptyRegistry
    /\ txs = <<>>
    /\ cycle = [c \in Cycles |-> IdleCycle]
    /\ faults = 0

NoCall == [pc |-> "none"]

\* A principal may own agents outside Agents: their earlier issuances account
\* for a counter that is not 0 when the modelled agents have issued nothing.
InitialUsed(u) ==
    LET limit == TIERS[UserTier[u]].monthly_limit
    IN {limit - InitSlack}

Init ==
    /\ now = 0
    /\ privateKeyLoaded \in BOOLEAN
    /\ encryptionKeyLoaded \in BOOLEAN
    /\ used_at_start \in {f \in [Users -> UNION {InitialUsed(u) : u \in Users}] :
                            \A u \in Users : f[u] \in InitialUsed(u)}
    /\ used_proofs_this_month = used_at_start
    /\ proof_nonce = [a \in Agents |-> 0]
    /\ proofs = {}
    /\ req = [r \in Reqs |-> Idle]
    /\ call = NoCall
    /\ NoJob

InTx(r) == req[r].pc \in {"begun", "nonce", "generated", "inserted", "debited"}

\* the counter read and written without a row lock
HoldsAgentLockNever(r, a) == FALSE

\* row locks taken by UPDATE and held to COMMIT or ROLLBACK
HoldsAgentLock(r, a) ==
    req[r].pc \in {"nonce", "generated", "inserted", "debited"} /\ req[r].agent = a

HoldsUserLock(r, u) == req[r].pc = "debited" /\ req[r].user.id = u

\* an uncommitted row of another transaction with this proof_hash
PendingHash(r, h) ==
    \E o \in Reqs \ {r} : req[o].pc \in {"inserted", "debited"} /\ req[o].row.proof_hash = h

\* a request that has been answered: what it asked, the step it was at, the
\* error thrown there (if any) and the code it was told
Replied(r, pc, code, error, rule_id) ==
    [pc |-> pc, code |-> code, error |-> error, step |-> req[r].pc,
     agent |-> req[r].agent, user |-> req[r].user, rule_id |-> rule_id]

\* the writes of r's transaction so far
WroteNonce(r) == req[r].pc \in {"nonce", "generated", "inserted", "debited"}

WroteRow(r) == req[r].pc \in {"inserted", "debited"}

WroteUsed(r) == req[r].pc = "debited"

\* the counter incremented outside the transaction: ROLLBACK leaves it
DiscardedKeepsNonce(r) ==
    [proof_nonce |->
        IF WroteNonce(r) THEN [proof_nonce EXCEPT ![req[r].agent] = req[r].nonce]
        ELSE proof_nonce,
     proofs |-> proofs,
     used_proofs_this_month |-> used_proofs_this_month]

\* the database after ROLLBACK: none of the transaction's writes
Discarded(r) ==
    [proof_nonce |-> proof_nonce,
     proofs |-> proofs,
     used_proofs_this_month |-> used_proofs_this_month]

\* the quota increment left out of the transaction
PersistedWithoutDebit(r) ==
    [proof_nonce |->
        IF WroteNonce(r) THEN [proof_nonce EXCEPT ![req[r].agent] = req[r].nonce]
        ELSE proof_nonce,
     proofs |-> IF WroteRow(r) THEN proofs \cup {req[r].row} ELSE proofs,
     used_proofs_this_month |-> used_proofs_this_month]

\* the database after COMMIT: all of the transaction's writes
Persisted(r) ==
    [proof_nonce |->
        IF WroteNonce(r) THEN [proof_nonce EXCEPT ![req[r].agent] = req[r].nonce]
        ELSE proof_nonce,
     proofs |-> IF WroteRow(r) THEN proofs \cup {req[r].row} ELSE proofs,
     used_proofs_this_month |->
        IF WroteUsed(r)
        THEN [used_proofs_this_month EXCEPT ![req[r].user.id] = @ + 1]
        ELSE used_proofs_this_month]

Store(db) ==
    /\ proof_nonce' = db.proof_nonce
    /\ proofs' = db.proofs
    /\ used_proofs_this_month' = db.used_proofs_this_month

\* requireApiKey: the agent of the key, then its user row
requireApiKey(r, a) ==
    /\ req[r].pc = "idle"
    /\ \A o \in Reqs : o < r => req[o].pc # "idle"    \* slots are taken in order
    /\ req' = [req EXCEPT ![r] =
                  [pc |-> "authed",
                   agent |-> a,
                   user |-> [id |-> AgentUser[a],
                             tier |-> UserTier[AgentUser[a]],
                             used_proofs_this_month |-> used_proofs_this_month[AgentUser[a]]]]]
    /\ UNCHANGED <<now, privateKeyLoaded, encryptionKeyLoaded, dbVars, used_at_start, call, jobVars>>

\* the quota test written with > for >=
PreconditionsOffByOne(user, agent, rule_id) ==
    LET tier == TIERS[user.tier] IN
    IF user.tier = "free" /\ user.used_proofs_this_month > tier.monthly_limit
    THEN "QUOTA_EXCEEDED"
    ELSE IF rule_id \notin DOMAIN rules THEN "RULE_NOT_FOUND"
    ELSE IF rules[rule_id].agent_id # agent THEN "RULE_MISMATCH"
    ELSE IF rules[rule_id].status # "active" THEN "RULE_ARCHIVED"
    ELSE IF validateConditions(rules[rule_id].conditions).raised THEN "INTERNAL_ERROR"
    ELSE IF ~validateConditions(rules[rule_id].conditions).valid THEN "RULE_CORRUPT"
    ELSE "OK"

\* the status test moved before the ownership test
PreconditionsStatusFirst(user, agent, rule_id) ==
    LET tier == TIERS[user.tier] IN
    IF user.tier = "free" /\ user.used_proofs_this_month >= tier.monthly_limit
    THEN "QUOTA_EXCEEDED"
    ELSE IF rule_id \notin DOMAIN rules THEN "RULE_NOT_FOUND"
    ELSE IF rules[rule_id].status # "active" THEN "RULE_ARCHIVED"
    ELSE IF rules[rule_id].agent_id # agent THEN "RULE_MISMATCH"
    ELSE IF validateConditions(rules[rule_id].conditions).raised THEN "INTERNAL_ERROR"
    ELSE IF ~validateConditions(rules[rule_id].conditions).valid THEN "RULE_CORRUPT"
    ELSE "OK"

\* the conditions of the rule never re-validated
PreconditionsNoValidation(user, agent, rule_id) ==
    LET tier == TIERS[user.tier] IN
    IF user.tier = "free" /\ user.used_proofs_this_month >= tier.monthly_limit
    THEN "QUOTA_EXCEEDED"
    ELSE IF rule_id \notin DOMAIN rules THEN "RULE_NOT_FOUND"
    ELSE IF rules[rule_id].agent_id # agent THEN "RULE_MISMATCH"
    ELSE IF rules[rule_id].status # "active" THEN "RULE_ARCHIVED"
    ELSE "OK"

\* the rule looked up by id alone, whoever owns it
PreconditionsNoOwnership(user, agent, rule_id) ==
    LET tier == TIERS[user.tier] IN
    IF user.tier = "free" /\ user.used_proofs_this_month >= tier.monthly_limit
    THEN "QUOTA_EXCEEDED"
    ELSE IF rule_id \notin DOMAIN rules THEN "RULE_NOT_FOUND"
    ELSE IF rules[rule_id].status # "active" THEN "RULE_ARCHIVED"
    ELSE IF validateConditions(rules[rule_id].conditions).raised THEN "INTERNAL_ERROR"
    ELSE IF ~validateConditions(rules[rule_id].conditions).valid THEN "RULE_CORRUPT"
    ELSE "OK"

\* the code of the first precondition that fails, or "OK"
Preconditions(user, agent, rule_id) ==
    LET tier == TIERS[user.tier] IN
    IF user.tier = "free" /\ user.used_proofs_this_month >= tier.monthly_limit
    THEN "QUOTA_EXCEEDED"
    ELSE IF rule_id \notin DOMAIN rules THEN "RULE_NOT_FOUND"
    ELSE IF rules[rule_id].agent_id # agent THEN "RULE_MISMATCH"
    ELSE IF rules[rule_id].status # "active" THEN "RULE_ARCHIVED"
    ELSE IF validateConditions(rules[rule_id].conditions).raised THEN "INTERNAL_ERROR"
    ELSE IF ~validateConditions(rules[rule_id].conditions).valid THEN "RULE_CORRUPT"
    ELSE "OK"

\* the handler up to the transaction's BEGIN: preconditions, evaluateRule,
\* transaction()
prove(r, rule_id, action_data) ==
    /\ req[r].pc = "authed"
    /\ <<req[r].agent, rule_id>> \in ProveInputs
    /\ LET code == Preconditions(req[r].user, req[r].agent, rule_id)
           in == [rule_id |-> rule_id, action_data |-> action_data]
       IN IF code # "OK"
          THEN req' = [req EXCEPT ![r] = Replied(r, "rejected", code, "none", rule_id)]
          ELSE req' = [req EXCEPT ![r] =
                          [pc |-> "begun",
                           ruleEval |-> evaluateRule(rules[rule_id].conditions, action_data),
                           tx_start |-> now]
                          @@ in @@ @]
    /\ UNCHANGED <<now, privateKeyLoaded, encryptionKeyLoaded, dbVars, used_at_start, call, jobVars>>

\* UPDATE agents SET proof_nonce = proof_nonce + 1 ... RETURNING proof_nonce
\* transaction(): the callback threw or a statement failed; ROLLBACK and
\* rethrow, which the error handler answers with 500
Rollback(r, error) ==
    /\ Store(Discarded(r))
    /\ req' = [req EXCEPT ![r] =
                  Replied(r, "failed", "INTERNAL_ERROR", error, req[r].rule_id)]

\* the largest value of an INT column
Int4Max == 2147483647

\* the sum taken modulo the column's range: past Int4Max the counter starts
\* again
Int4Plus1Wrapping(n) == [raised |-> FALSE, value |-> IF n = Int4Max THEN 0 ELSE n + 1]

\* proof_nonce + 1 in the database's integer arithmetic; at Int4Max the sum
\* is not computed and the statement fails
Int4Plus1(n) ==
    IF n = Int4Max THEN [raised |-> TRUE] ELSE [raised |-> FALSE, value |-> n + 1]

IncrementNonce(r) ==
    /\ req[r].pc = "begun"
    /\ \A o \in Reqs : ~HoldsAgentLock(o, req[r].agent)
    /\ LET sum == Int4Plus1(proof_nonce[req[r].agent])
       IN IF sum.raised
          THEN Rollback(r, "integer out of range")
          ELSE /\ req' = [req EXCEPT ![r] = [pc |-> "nonce", nonce |-> sum.value] @@ @]
               /\ UNCHANGED dbVars
    /\ UNCHANGED <<now, privateKeyLoaded, encryptionKeyLoaded, used_at_start, call, jobVars>>

\* generateProof(...) with the nonce just read; signProof and encrypt throw
\* when their key was not loaded
\* only signProof finds its key missing
SigningKeyLoaded == privateKeyLoaded

\* signProof and encrypt each throw when their key is not loaded
KeysLoaded == privateKeyLoaded /\ encryptionKeyLoaded

\* the clock when generateProof returns: a second boundary may have been
\* crossed since buildProofPayload read it
Later(t) == {l \in {t, t + MsPerSecond} : l <= MaxTicks * MsPerSecond}

GenerateProof(r, iv, later) ==
    /\ req[r].pc = "nonce"
    /\ IF KeysLoaded
       THEN /\ req' = [req EXCEPT ![r] =
                      [pc |-> "generated",
                       generated |-> generateProof(req[r].agent, req[r].rule_id,
                                                   rules[req[r].rule_id].conditions,
                                                   req[r].action_data,
                                                   req[r].ruleEval.evaluation,
                                                   req[r].ruleEval.rule_met,
                                                   req[r].nonce, now, later, iv)] @@ @]
            /\ now' = later
            /\ UNCHANGED dbVars
       ELSE /\ later = now
            /\ Rollback(r, "key not loaded")
            /\ UNCHANGED now
    /\ UNCHANGED <<privateKeyLoaded, encryptionKeyLoaded, used_at_start, call, jobVars>>

\* the row written with the counter's committed value, read outside the
\* transaction
ProofRowCommittedNonce(r) ==
    [id |-> r,
     agent_id |-> req[r].agent,
     rule_id |-> req[r].rule_id,
     action_data |-> req[r].action_data,
     evaluation |-> req[r].ruleEval.evaluation,
     rule_met |-> req[r].ruleEval.rule_met,
     decision_summary |-> req[r].ruleEval.summary,
     proof_hash |-> req[r].generated.proof_hash,
     signature_encrypted |-> req[r].generated.signature_encrypted,
     nonce |-> proof_nonce[req[r].agent],
     on_chain_tx_hash |-> Null,
     created_at |-> req[r].tx_start]

\* the row INSERT INTO proofs writes; id and created_at are column defaults
\* (gen_random_uuid(), NOW() = the transaction's start time)
ProofRow(r) ==
    [id |-> r,
     agent_id |-> req[r].agent,
     rule_id |-> req[r].rule_id,
     action_data |-> req[r].action_data,
     evaluation |-> req[r].ruleEval.evaluation,
     rule_met |-> req[r].ruleEval.rule_met,
     decision_summary |-> req[r].ruleEval.summary,
     proof_hash |-> req[r].generated.proof_hash,
     signature_encrypted |-> req[r].generated.signature_encrypted,
     nonce |-> req[r].nonce,
     on_chain_tx_hash |-> Null,
     created_at |-> req[r].tx_start]

\* the column without its UNIQUE constraint
HashNeverTaken(h) == FALSE

\* proofs.proof_hash UNIQUE
HashTaken(h) == \E p \in proofs : p.proof_hash = h

\* INSERT INTO proofs: waits for an uncommitted row with the same proof_hash,
\* fails on a committed one
InsertProof(r) ==
    /\ req[r].pc = "generated"
    /\ ~PendingHash(r, req[r].generated.proof_hash)
    /\ IF HashTaken(req[r].generated.proof_hash)
       THEN Rollback(r, "unique violation")
       ELSE /\ req' = [req EXCEPT ![r] = [pc |-> "inserted", row |-> ProofRow(r)] @@ @]
            /\ UNCHANGED dbVars
    /\ UNCHANGED <<now, privateKeyLoaded, encryptionKeyLoaded, used_at_start, call, jobVars>>

\* UPDATE users SET used_proofs_this_month = used_proofs_this_month + 1
IncrementUsed(r) ==
    /\ req[r].pc = "inserted"
    /\ \A o \in Reqs : ~HoldsUserLock(o, req[r].user.id)
    /\ req' = [req EXCEPT ![r] = [pc |-> "debited"] @@ @]
    /\ UNCHANGED <<now, privateKeyLoaded, encryptionKeyLoaded, dbVars, used_at_start, call, jobVars>>

\* COMMIT: the transaction's three writes become visible together; 201
\* the body of the 201 reply, from the row INSERT ... RETURNING gave back
\* (proof_cost is not a column of the model)
ProveResponse(r) ==
    [proof_id |-> req[r].row.id,
     proof_hash |-> req[r].row.proof_hash,
     rule_met |-> req[r].row.rule_met,
     evaluation |-> req[r].ruleEval.evaluation,
     summary |-> req[r].row.decision_summary,
     on_chain |-> FALSE,
     verify_url |-> <<"https://getvouched.ai/proof/", req[r].row.id>>,
     created_at |-> req[r].row.created_at]

Commit(r) ==
    /\ req[r].pc = "debited"
    /\ Store(Persisted(r))
    /\ req' = [req EXCEPT ![r] = [body |-> ProveResponse(r)]
                                    @@ Replied(r, "done", "CREATED", "none", req[r].rule_id)]
    /\ UNCHANGED <<now, privateKeyLoaded, encryptionKeyLoaded, used_at_start, call, jobVars>>

\* a statement of the transaction (COMMIT included) fails: connection lost,
\* statement error
StatementFails(r) ==
    /\ InTx(r)
    /\ Rollback(r, "statement failed")
    /\ UNCHANGED <<now, privateKeyLoaded, encryptionKeyLoaded, used_at_start, call, jobVars>>

\* time passes: the clock crosses a second boundary
Tick ==
    /\ now < MaxTicks * MsPerSecond
    /\ now' = now + MsPerSecond
    /\ UNCHANGED <<privateKeyLoaded, encryptionKeyLoaded, dbVars, req, used_at_start, call, jobVars>>

Next ==
    \/ \E r \in Reqs, a \in Agents : requireApiKey(r, a)
    \/ \E r \in Reqs, rule_id \in DOMAIN rules \cup {"r0"}, action_data \in ActionDatas : prove(r, rule_id, action_data)
    \/ \E r \in Reqs : IncrementNonce(r)
    \/ \E r \in Reqs, iv \in IVs : \E later \in Later(now) : GenerateProof(r, iv, later)
    \/ \E r \in Reqs : InsertProof(r)
    \/ \E r \in Reqs : IncrementUsed(r)
    \/ \E r \in Reqs : Commit(r)
    \/ \E r \in Reqs : StatementFails(r)
    \/ Tick

Spec == Init /\ [][Next]_vars

-----------------------------------------------------------------------------
(* POST /api/prove for an agent whose counter is at the end of the INT     *)
(* range.                                                                  *)

\* the counter of an agent that has issued all, or all but one, of the
\* attestations an INT can number (their rows are left out of the table)
NearInt4Max == {Int4Max - 1, Int4Max}

InitOverflow ==
    /\ now = 0
    /\ privateKeyLoaded = TRUE
    /\ encryptionKeyLoaded = TRUE
    /\ used_at_start \in {f \in [Users -> UNION {InitialUsed(u) : u \in Users}] :
                            \A u \in Users : f[u] \in InitialUsed(u)}
    /\ used_proofs_this_month = used_at_start
    /\ proof_nonce \in {[a \in Agents |-> IF a = "a1" THEN n ELSE 0] : n \in NearInt4Max}
    /\ proofs = {}
    /\ req = [r \in Reqs |-> Idle]
    /\ call = NoCall
    /\ NoJob

SpecOverflow == InitOverflow /\ [][Next]_vars

-----------------------------------------------------------------------------
(* The canonicalizer on its own: two calls of buildProofPayload.           *)

AmountAtMost9 == [field |-> Key("amount"), op |-> "<=", value |-> Num(9)]

AmountBelow5 == [field |-> Key("amount"), op |-> "<", value |-> Num(5)]

NonceAtMost5 == [field |-> Key("nonce"), op |-> "<=", value |-> Num(5)]

\* the arguments a call may pass
CanonArgs ==
    [agentId : {"a1", "a2"},
     ruleId : {"r1", "r2"},
     conditions : {<<AmountAtMost5>>, <<AmountAtMost9>>, <<AmountBelow5>>, <<NonceAtMost5>>},
     actionData : {[amount |-> Num(3)], [amount |-> Num(4)], [nonce |-> Num(9)]},
     evaluation : {<<EvalCondition(AmountAtMost5, [amount |-> Num(3)])>>,
                   <<EvalCondition(AmountAtMost5, [amount |-> Num(9)])>>},
     ruleMet : BOOLEAN,
     nonce : {1, 2}]

\* the arguments in which two calls differ
Differing(x, y) == {k \in DOMAIN x : x[k] # y[k]}

CallPayload(args, dateNow) ==
    buildProofPayload(args.agentId, args.ruleId, args.conditions, args.actionData,
                      args.evaluation, args.ruleMet, args.nonce, dateNow)

InitCanon ==
    /\ now = 0
    /\ privateKeyLoaded = TRUE
    /\ encryptionKeyLoaded = TRUE
    /\ used_at_start = [u \in Users |-> 0]
    /\ used_proofs_this_month = used_at_start
    /\ proof_nonce = [a \in Agents |-> 0]
    /\ proofs = {}
    /\ req = [r \in Reqs |-> Idle]
    /\ call = NoCall
    /\ NoJob

FirstCall(args) ==
    /\ call.pc = "none"
    /\ call' = [pc |-> "first", args1 |-> args, t1 |-> now, out1 |-> CallPayload(args, now)]
    /\ UNCHANGED <<now, privateKeyLoaded, encryptionKeyLoaded, dbVars, req, used_at_start, jobVars>>

\* a second call, with the same arguments or with one of them changed
SecondCall(args) ==
    /\ call.pc = "first"
    /\ Cardinality(Differing(call.args1, args)) <= 1
    /\ call' = [pc |-> "second", args2 |-> args, t2 |-> now, out2 |-> CallPayload(args, now)]
                  @@ call
    /\ UNCHANGED <<now, privateKeyLoaded, encryptionKeyLoaded, dbVars, req, used_at_start, jobVars>>

NextCanon ==
    \/ \E args \in CanonArgs : FirstCall(args)
    \/ \E args \in CanonArgs : SecondCall(args)
    \/ Tick

SpecCanon == InitCanon /\ [][NextCanon]_vars

-----------------------------------------------------------------------------
(* generateProof on its own: one call, during which time may pass.         *)

\* generateProof is entered and buildProofPayload reads the clock
EnterGenerate(args, iv) ==
    /\ call.pc = "none"
    /\ call' = [pc |-> "built", args |-> args, iv |-> iv, t |-> now,
                payload |-> CallPayload(args, now)]
    /\ UNCHANGED <<now, privateKeyLoaded, encryptionKeyLoaded, dbVars, req, used_at_start, jobVars>>

\* the payload is hashed, signed and sealed, and the clock is read again
\* for the result
ReturnGenerate ==
    /\ call.pc = "built"
    /\ call' = [pc |-> "returned",
                out |-> generateProof(call.args.agentId, call.args.ruleId,
                                      call.args.conditions, call.args.actionData,
                                      call.args.evaluation, call.args.ruleMet,
                                      call.args.nonce, call.t, now, call.iv)]
                  @@ call
    /\ UNCHANGED <<now, privateKeyLoaded, encryptionKeyLoaded, dbVars, req, used_at_start, jobVars>>

NextGenerate ==
    \/ \E args \in CanonArgs, iv \in IVs : EnterGenerate(args, iv)
    \/ ReturnGenerate
    \/ Tick

SpecGenerate == InitCanon /\ [][NextGenerate]_vars

-----------------------------------------------------------------------------
(* The rule engine on its own: one call of evaluateRule or of              *)
(* validateConditions.                                                     *)

MaxEvalLen == 3     \* longest condition list evaluated as a whole

EngineFields == {"amount", "constructor"}

\* values a condition may carry
EngineValues ==
    {Num(0), Num(1), Num(5),
     Str(<<>>), Str(<<"1">>), Str(<<"b">>), Str(<<"a", "b">>),
     Bool(TRUE), Bool(FALSE),
     Arr(<<>>), Arr(<<Num(1)>>), Arr(<<Num(1), Str(<<"1">>)>>),
     Arr(<<Str(<<"a", "b">>)>>), Arr(<<Arr(<<Num(1)>>)>>),
     Null}

\* entries an action record may hold for "amount"
EngineActuals ==
    {Num(0), Num(1), Num(7),
     Str(<<>>), Str(<<"1">>), Str(<<"a", "b">>),
     Bool(TRUE), Bool(FALSE),
     Arr(<<>>), Arr(<<Num(1)>>),
     Null}

\* an action record with no entry
EmptyRecord == [k \in {} |-> Null]

EngineRecords == {[amount |-> v] : v \in EngineActuals} \cup {EmptyRecord}

\* single conditions, validated or not
EngineConditions == [field : {Key(f) : f \in EngineFields}, op : VALID_OPS, value : EngineValues]

\* whole rules of up to MaxEvalLen conditions and the records they meet
RuleConditions == {AmountAtMost5, NonceAbove0, AmountBelow5}

RuleLists == UNION {[1..n -> RuleConditions] : n \in 0..MaxEvalLen}

RuleRecords ==
    {[amount |-> Num(3)], [amount |-> Num(5)], [nonce |-> Num(9)],
     [amount |-> Num(3), nonce |-> Num(9)], [amount |-> Num(7), nonce |-> Num(0)]}

EvaluateInputs ==
    {<<(<<c>>), ad>> : c \in EngineConditions, ad \in EngineRecords}
        \cup (RuleLists \X RuleRecords)

InitEngine ==
    /\ now = 0
    /\ privateKeyLoaded = TRUE
    /\ encryptionKeyLoaded = TRUE
    /\ used_at_start = [u \in Users |-> 0]
    /\ used_proofs_this_month = used_at_start
    /\ proof_nonce = [a \in Agents |-> 0]
    /\ proofs = {}
    /\ req = [r \in Reqs |-> Idle]
    /\ call = NoCall
    /\ NoJob

Evaluate(conditions, actionData) ==
    /\ call.pc = "none"
    /\ call' = [pc |-> "evaluated", conditions |-> conditions, actionData |-> actionData,
                out |-> evaluateRule(conditions, actionData)]
    /\ UNCHANGED <<now, privateKeyLoaded, encryptionKeyLoaded, dbVars, req, used_at_start, jobVars>>

\* proposed conditions: every combination of a field, an operator and a
\* value, each of the three keys present or not, and two elements that are
\* not objects
ShapeFields == {Key("amount"), Key(""), Num(5)}

ShapeOps == {"=", "<", "IN", "CONTAINS", "~"}

ShapeValues == {Null, Num(1), Str(<<"1">>), Arr(<<Num(1)>>)}

Restrict(c, keys) == [k \in keys |-> c[k]]

ConditionShapes ==
    {Restrict(c, keys) : c \in [field : ShapeFields, op : ShapeOps, value : ShapeValues],
                         keys \in SUBSET {"field", "op", "value"}}
        \cup {Null, Num(5)}

\* one condition per violation, a well-formed one, and null
SmallShapes ==
    {AmountAtMost5,
     [op |-> "=", value |-> Num(1)],
     [field |-> Key("amount"), op |-> "~", value |-> Num(1)],
     [field |-> Key("amount"), op |-> "="],
     [field |-> Key("amount"), op |-> "IN", value |-> Num(1)],
     [field |-> Key("amount"), op |-> "<", value |-> Str(<<"1">>)],
     Null}

\* a list of n well-formed conditions with c at position i
Padded(n, i, c) == [k \in 1..n |-> IF k = i THEN c ELSE AmountAtMost5]

ValidateInputs ==
    {<<>>} \cup {<<c>> : c \in ConditionShapes}
        \cup {<<c, d>> : c \in SmallShapes, d \in SmallShapes}
        \cup {Padded(n, i, c) : n \in (MaxConditions - 1)..(MaxConditions + 1),
                                i \in {1, MaxConditions - 1}, c \in SmallShapes}

Validate(conditions) ==
    /\ call.pc = "none"
    /\ call' = [pc |-> "validated", conditions |-> conditions,
                out |-> validateConditions(conditions)]
    /\ UNCHANGED <<now, privateKeyLoaded, encryptionKeyLoaded, dbVars, req, used_at_start, jobVars>>

NextEngine ==
    \/ \E in \in EvaluateInputs : Evaluate(in[1], in[2])
    \/ \E conditions \in ValidateInputs : Validate(conditions)

SpecEngine == InitEngine /\ [][NextEngine]_vars

-----------------------------------------------------------------------------
(* The Merkle tree of the batch job: one call of computeMerkleRoot.        *)

MaxLeaves == 5        \* longest leaf list
DigestSpace == 10007  \* size of the modelled space of 32-byte digests

\* a 32-byte digest is a number below DigestSpace; its "0x" hex string
\* (hexToBytes, bytesToHex) orders as the number does
LeafDigests == {1, 3, DigestSpace - 7}

\* Keccak-256 of the 64-byte concatenation of two digests, as a function of
\* the ordered pair into the digest space
keccak256(combined) == (31 * combined[1] + 17 * combined[2] + 1) % DigestSpace

\* one pass of the for loop, with an odd last node hashed with itself
RECURSIVE NextLayerDuplicating(_)
NextLayerDuplicating(layer) ==
    IF layer = <<>> THEN <<>>
    ELSE IF Len(layer) = 1 THEN <<keccak256(<<layer[1], layer[1]>>)>>
    ELSE LET combined == IF layer[1] <= layer[2] THEN <<layer[1], layer[2]>>
                         ELSE <<layer[2], layer[1]>>
         IN <<keccak256(combined)>> \o NextLayerDuplicating(SubSeq(layer, 3, Len(layer)))

\* one pass of the for loop: adjacent pairs, smaller first, hashed; an odd last
\* node pushed as it is
RECURSIVE NextLayer(_)
NextLayer(layer) ==
    IF layer = <<>> THEN <<>>
    ELSE IF Len(layer) = 1 THEN <<layer[1]>>
    ELSE LET combined == IF layer[1] <= layer[2] THEN <<layer[1], layer[2]>>
                         ELSE <<layer[2], layer[1]>>
         IN <<keccak256(combined)>> \o NextLayer(SubSeq(layer, 3, Len(layer)))

\* while (layer.length > 1)
RECURSIVE ReduceLayers(_)
ReduceLayers(layer) ==
    IF Len(layer) > 1 THEN ReduceLayers(NextLayer(layer)) ELSE layer[1]

\* the root, or the Error thrown for no leaves
computeMerkleRoot(leaves) ==
    IF Len(leaves) = 0 THEN [raised |-> TRUE]
    ELSE IF Len(leaves) = 1 THEN [raised |-> FALSE, root |-> leaves[1]]
    ELSE [raised |-> FALSE, root |-> ReduceLayers(leaves)]

LeafLists == UNION {[1..n -> LeafDigests] : n \in 0..MaxLeaves}

InitMerkle == InitEngine

ComputeRoot(leaves) ==
    /\ call.pc = "none"
    /\ call' = [pc |-> "rooted", leaves |-> leaves, out |-> computeMerkleRoot(leaves)]
    /\ UNCHANGED <<now, privateKeyLoaded, encryptionKeyLoaded, dbVars, req, used_at_start, jobVars>>

\* the loop of the registry's verifyInclusion written without the sort
RECURSIVE ClimbUnsorted(_, _)
ClimbUnsorted(leaf, merkleProof) ==
    IF merkleProof = <<>> THEN leaf
    ELSE ClimbUnsorted(keccak256(<<leaf, Head(merkleProof)>>), Tail(merkleProof))

\* the loop of the registry's verifyInclusion: the running node and the next
\* proof element are hashed smaller first
RECURSIVE Climb(_, _)
Climb(leaf, merkleProof) ==
    IF merkleProof = <<>> THEN leaf
    ELSE IF leaf <= Head(merkleProof)
         THEN Climb(keccak256(<<leaf, Head(merkleProof)>>), Tail(merkleProof))
         ELSE Climb(keccak256(<<Head(merkleProof), leaf>>), Tail(merkleProof))

\* VouchRegistry.verifyInclusion against the root stored for the batch
verifyInclusion(proofHash, merkleProof, root) == Climb(proofHash, merkleProof) = root

\* the inclusion proof of the node at position i of a layer: its sibling, or
\* nothing when the node is promoted, then the proof of its parent
RECURSIVE ProofPath(_, _)
ProofPath(layer, i) ==
    IF Len(layer) <= 1 THEN <<>>
    ELSE LET sibling == IF i % 2 = 0 THEN <<layer[i - 1]>>
                        ELSE IF i + 1 <= Len(layer) THEN <<layer[i + 1]>>
                        ELSE <<>>
         IN sibling \o ProofPath(NextLayer(layer), (i + 1) \div 2)

\* a verifier checks leaf i of the list against the computed root
VerifyInclusion(i) ==
    /\ call.pc = "rooted"
    /\ ~call.out.raised
    /\ i \in 1..Len(call.leaves)
    /\ call' = [pc |-> "verified", leaves |-> call.leaves, out |-> call.out, index |-> i,
                merkleProof |-> ProofPath(call.leaves, i),
                included |-> verifyInclusion(call.leaves[i], ProofPath(call.leaves, i),
                                             call.out.root)]
    /\ UNCHANGED <<now, privateKeyLoaded, encryptionKeyLoaded, dbVars, req, used_at_start, jobVars>>

NextMerkle ==
    \/ \E leaves \in LeafLists : ComputeRoot(leaves)
    \/ \E i \in 1..MaxLeaves : VerifyInclusion(i)

SpecMerkle == InitMerkle /\ [][NextMerkle]_vars

-----------------------------------------------------------------------------
(* The batch job: runs of batchProofsToChain against the proofs table and  *)
(* the VouchRegistry contract, while attestations are committed.           *)

NumRows == 3        \* attestations committed while the batch job runs
MaxFaults == 1      \* failures of the environment (ledger, database, process)

RowIds == 1..NumRows

\* the digest of each attestation committed
RowDigest(i) == (37 * i + 5) % DigestSpace

\* the row POST /api/prove commits for attestation i; the first two share a
\* transaction start time
BatchRow(i, proof_hash) ==
    [id |-> i,
     agent_id |-> "a1",
     rule_id |-> "r1",
     action_data |-> <<>>,
     evaluation |-> <<>>,
     rule_met |-> TRUE,
     decision_summary |-> <<>>,
     proof_hash |-> proof_hash,
     signature_encrypted |-> <<>>,
     nonce |-> i,
     on_chain_tx_hash |-> Null,
     created_at |-> (i + 1) \div 2]

\* tx.hash of the transaction at a position of txs
TxHash(tx) == Str(<<"0", "x">> \o NatToString(tx))

InitBatch ==
    /\ now = 0
    /\ privateKeyLoaded = TRUE
    /\ encryptionKeyLoaded = TRUE
    /\ used_at_start = [u \in Users |-> 0]
    /\ used_proofs_this_month = used_at_start
    /\ proof_nonce = [a \in Agents |-> 0]
    /\ proofs = {}
    /\ req = [r \in Reqs |-> Idle]
    /\ call = NoCall
    /\ env \in [configured : BOOLEAN, BATCH_MAX : {MaxBatch, MaxBatch + 1}]
    /\ registry = EmptyRegistry
    /\ txs = <<>>
    /\ cycle = [c \in Cycles |-> IdleCycle]
    /\ faults = 0

\* a POST /api/prove transaction commits the row of attestation i, unless its
\* digest is taken
Arrive(i, proof_hash) ==
    /\ i = Cardinality(proofs) + 1
    /\ ~HashTaken(proof_hash)
    /\ proofs' = proofs \cup {BatchRow(i, proof_hash)}
    /\ proof_nonce' = [proof_nonce EXCEPT !["a1"] = i]
    /\ UNCHANGED <<now, privateKeyLoaded, encryptionKeyLoaded, used_proofs_this_month,
                   req, used_at_start, call, jobVars>>

\* the scan reading the rows of transactions in flight as well
UnbatchedDirty ==
    {p \in proofs \cup {req[r].row : r \in {o \in Reqs : WroteRow(o)}} : p.on_chain_tx_hash = Null}

\* WHERE on_chain_tx_hash IS NULL
Unbatched == {p \in proofs : p.on_chain_tx_hash = Null}

Min(a, b) == IF a <= b THEN a ELSE b

\* the results SELECT ... ORDER BY created_at ASC LIMIT $1 may return: rows
\* with equal created_at come in any order
Selections(limit) ==
    LET n == Min(limit, Cardinality(Unbatched))
    IN {sel \in [1..n -> Unbatched] :
           /\ \A i, j \in 1..n : i < j => sel[i] # sel[j] /\ sel[i].created_at <= sel[j].created_at
           /\ \A p \in Unbatched :
                  (\A i \in 1..n : sel[i] # p) => \A i \in 1..n : sel[i].created_at <= p.created_at}

\* a run that returned or was caught at a step
Ended(c, outcome) ==
    [pc |-> "done", outcome |-> outcome, step |-> cycle[c].pc,
     unbatched |-> cycle[c].unbatched, merkleRoot |-> cycle[c].merkleRoot, tx |-> cycle[c].tx]

Running(c) == cycle[c].pc \in {"scanned", "submitted", "confirmed"}

\* the configuration never looked at
ConfiguredAlways(e) == TRUE

\* RPC_URL, REGISTRY_CONTRACT_ADDRESS and DEPLOYER_PRIVATE_KEY are all set
Configured(e) == e.configured

\* steps 1 to 3 up to the try: the scan, the root, the configuration read
Scan(c, sel) ==
    /\ ~Running(c)
    /\ sel \in Selections(env.BATCH_MAX)
    /\ LET unbatched == [i \in DOMAIN sel |-> [id |-> sel[i].id, proof_hash |-> sel[i].proof_hash]]
           leaves == [i \in DOMAIN sel |-> sel[i].proof_hash]
           started == [IdleCycle EXCEPT !.pc = "scanned", !.unbatched = unbatched]
       IN cycle' = [cycle EXCEPT ![c] =
              IF Len(unbatched) = 0
              THEN [started EXCEPT !.pc = "done", !.outcome = "no unbatched proofs", !.step = "scan"]
              ELSE IF ~Configured(env)
              THEN [started EXCEPT !.pc = "done", !.outcome = "not configured", !.step = "scan",
                                   !.merkleRoot = Num(computeMerkleRoot(leaves).root)]
              ELSE [started EXCEPT !.merkleRoot = Num(computeMerkleRoot(leaves).root)]]
    /\ UNCHANGED <<now, privateKeyLoaded, encryptionKeyLoaded, dbVars, req, used_at_start, call,
                   env, registry, txs, faults>>

Leaves(c) == [i \in DOMAIN cycle[c].unbatched |-> cycle[c].unbatched[i].proof_hash]

\* a contract that compares the hashes of one call only
DuplicateWithinCall(reg, proofHashes) ==
    \E i \in DOMAIN proofHashes :
        \E j \in DOMAIN proofHashes : j < i /\ proofHashes[j] = proofHashes[i]

\* the require of the loop fails at some i: the hash is registered already,
\* or was registered by the loop at an earlier i
Duplicate(reg, proofHashes) ==
    \E i \in DOMAIN proofHashes :
        \/ proofHashes[i] \in reg.proofExists
        \/ \E j \in DOMAIN proofHashes : j < i /\ proofHashes[j] = proofHashes[i]

\* registerBatch without its size limit
registerBatchUnlimited(reg, merkleRoot, proofCount, proofHashes) ==
    IF Len(proofHashes) # proofCount THEN [reverted |-> TRUE, reason |-> "Count mismatch"]
    ELSE IF ~(proofCount > 0) THEN [reverted |-> TRUE, reason |-> "Empty batch"]
    ELSE IF Duplicate(reg, proofHashes) THEN [reverted |-> TRUE, reason |-> "Duplicate proof"]
    ELSE [reverted |-> FALSE,
          storage |->
              [proofExists |-> reg.proofExists \cup {proofHashes[i] : i \in DOMAIN proofHashes},
               batchCount |-> reg.batchCount + 1,
               batches |-> Append(reg.batches,
                                  [merkleRoot |-> merkleRoot, proofCount |-> proofCount,
                                   timestamp |-> now])]]

\* VouchRegistry.registerBatch called by the owner: the revert (all writes
\* undone), or the storage after the call
registerBatch(reg, merkleRoot, proofCount, proofHashes) ==
    IF Len(proofHashes) # proofCount THEN [reverted |-> TRUE, reason |-> "Count mismatch"]
    ELSE IF ~(proofCount > 0) THEN [reverted |-> TRUE, reason |-> "Empty batch"]
    ELSE IF ~(proofCount <= MaxBatch) THEN [reverted |-> TRUE, reason |-> "Batch too large"]
    ELSE IF Duplicate(reg, proofHashes) THEN [reverted |-> TRUE, reason |-> "Duplicate proof"]
    ELSE [reverted |-> FALSE,
          storage |->
              [proofExists |-> reg.proofExists \cup {proofHashes[i] : i \in DOMAIN proofHashes},
               batchCount |-> reg.batchCount + 1,
               batches |-> Append(reg.batches,
                                  [merkleRoot |-> merkleRoot, proofCount |-> proofCount,
                                   timestamp |-> now])]]

\* contract.registerBatch(merkleRoot, unbatched.length, leaves): the gas
\* estimate runs the call on the ledger's current storage and throws when it
\* reverts; otherwise the transaction is signed and sent
Submit(c) ==
    /\ cycle[c].pc = "scanned"
    /\ IF registerBatch(registry, cycle[c].merkleRoot, Len(cycle[c].unbatched), Leaves(c)).reverted
       THEN /\ cycle' = [cycle EXCEPT ![c] = Ended(c, "failed")]
            /\ UNCHANGED txs
       ELSE /\ txs' = Append(txs, [status |-> "pending", merkleRoot |-> cycle[c].merkleRoot,
                                   proofCount |-> Len(cycle[c].unbatched),
                                   proofHashes |-> Leaves(c)])
            /\ cycle' = [cycle EXCEPT ![c] = [@ EXCEPT !.pc = "submitted", !.tx = Len(txs) + 1]]
    /\ UNCHANGED <<now, privateKeyLoaded, encryptionKeyLoaded, dbVars, req, used_at_start, call,
                   env, registry, faults>>

\* the ledger includes the oldest pending transaction of the wallet in a
\* block: it runs registerBatch, and a revert leaves the storage as it was
Mine(tx) ==
    /\ tx \in DOMAIN txs
    /\ txs[tx].status = "pending"
    /\ \A earlier \in 1..(tx - 1) : txs[earlier].status # "pending"
    /\ LET result == registerBatch(registry, txs[tx].merkleRoot, txs[tx].proofCount,
                                   txs[tx].proofHashes)
       IN IF result.reverted
          THEN /\ txs' = [txs EXCEPT ![tx].status = "reverted"]
               /\ UNCHANGED registry
          ELSE /\ txs' = [txs EXCEPT ![tx].status = "success"]
               /\ registry' = result.storage
    /\ UNCHANGED <<now, privateKeyLoaded, encryptionKeyLoaded, dbVars, req, used_at_start, call,
                   env, cycle, faults>>

\* tx.wait() resolves without waiting for the receipt
ReceiptOrPending(tx) == txs[tx].status \in {"pending", "success"}

\* tx.wait() resolves with the receipt of a transaction that succeeded
Receipt(tx) == txs[tx].status = "success"

\* await tx.wait(): resolves once the transaction is mined and succeeded,
\* throws once it is mined and reverted
Confirm(c) ==
    /\ cycle[c].pc = "submitted"
    /\ \/ /\ Receipt(cycle[c].tx)
          /\ cycle' = [cycle EXCEPT ![c] = [@ EXCEPT !.pc = "confirmed"]]
       \/ /\ txs[cycle[c].tx].status = "reverted"
          /\ cycle' = [cycle EXCEPT ![c] = Ended(c, "failed")]
    /\ UNCHANGED <<now, privateKeyLoaded, encryptionKeyLoaded, dbVars, req, used_at_start, call,
                   env, registry, txs, faults>>

\* an UPDATE that stops after its first row
MarkedFirstOnly(ids, txHash) ==
    {IF p.id = ids[1] THEN [p EXCEPT !.on_chain_tx_hash = txHash] ELSE p : p \in proofs}

\* UPDATE proofs SET on_chain_tx_hash = $1 WHERE id = ANY($2): the table after
\* the statement
Marked(ids, txHash) ==
    {IF \E i \in DOMAIN ids : ids[i] = p.id THEN [p EXCEPT !.on_chain_tx_hash = txHash] ELSE p :
        p \in proofs}

\* step 4: every proof of the scan gets the transaction hash
Mark(c) ==
    /\ cycle[c].pc = "confirmed"
    /\ proofs' = Marked([i \in DOMAIN cycle[c].unbatched |-> cycle[c].unbatched[i].id],
                        TxHash(cycle[c].tx))
    /\ cycle' = [cycle EXCEPT ![c] = Ended(c, "updated")]
    /\ UNCHANGED <<now, privateKeyLoaded, encryptionKeyLoaded, used_proofs_this_month,
                   proof_nonce, req, used_at_start, call, env, registry, txs, faults>>

\* an awaited call inside the try throws for a reason outside the program
\* (the ledger is unreachable when submitting or while waiting, the database
\* fails the UPDATE): the catch logs it and the run returns
CallFails(c) ==
    /\ Running(c)
    /\ faults < MaxFaults
    /\ faults' = faults + 1
    /\ cycle' = [cycle EXCEPT ![c] = Ended(c, "failed")]
    /\ UNCHANGED <<now, privateKeyLoaded, encryptionKeyLoaded, dbVars, req, used_at_start, call,
                   env, registry, txs>>

\* the process of a run is killed
Crash(c) ==
    /\ Running(c)
    /\ faults < MaxFaults
    /\ faults' = faults + 1
    /\ cycle' = [cycle EXCEPT ![c] = Ended(c, "crashed")]
    /\ UNCHANGED <<now, privateKeyLoaded, encryptionKeyLoaded, dbVars, req, used_at_start, call,
                   env, registry, txs>>

NextBatch ==
    \/ \E i \in RowIds : \E proof_hash \in {RowDigest(i), RowDigest(1)} : Arrive(i, proof_hash)
    \/ \E c \in Cycles : \E sel \in Selections(env.BATCH_MAX) : Scan(c, sel)
    \/ \E c \in Cycles : Submit(c)
    \/ \E tx \in DOMAIN txs : Mine(tx)
    \/ \E c \in Cycles : Confirm(c)
    \/ \E c \in Cycles : Mark(c)
    \/ \E c \in Cycles : CallFails(c)
    \/ \E c \in Cycles : Crash(c)

SpecBatch == InitBatch /\ [][NextBatch]_vars

\* the steps of one run
CycleSteps(c) ==
    \/ \E sel \in Selections(env.BATCH_MAX) : Scan(c, sel)
    \/ Submit(c)
    \/ Confirm(c)
    \/ Mark(c)

\* the batch job keeps being started (cron) and every run keeps taking its
\* steps; the ledger keeps including pending transactions; failures stay
\* within MaxFaults, so the ledger is reachable from some point on
SpecBatchFair ==
    /\ InitBatch
    /\ [][NextBatch]_vars
    /\ \A c \in Cycles : WF_vars(CycleSteps(c))
    /\ WF_vars(\E tx \in DOMAIN txs : Mine(tx))

-----------------------------------------------------------------------------
(* POST /api/prove and the batch job side by side: the job reads the       *)
(* proofs table while issuance transactions are in flight.                 *)

InitVisible ==
    /\ Init
    /\ KeysLoaded

\* the requests sent while the job runs: two agents, each asking for an
\* active rule of its own or of the other
VisibleAgents == {"a1", "a2"}

VisibleRules == {"r1", "r2"}

VisibleActionDatas == {[amount |-> Num(3)]}

NextVisible ==
    \/ \E r \in Reqs, a \in VisibleAgents : requireApiKey(r, a)
    \/ \E r \in Reqs, rule_id \in VisibleRules, action_data \in VisibleActionDatas : prove(r, rule_id, action_data)
    \/ \E r \in Reqs : IncrementNonce(r)
    \/ \E r \in Reqs, iv \in IVs : \E later \in Later(now) : GenerateProof(r, iv, later)
    \/ \E r \in Reqs : InsertProof(r)
    \/ \E r \in Reqs : IncrementUsed(r)
    \/ \E r \in Reqs : Commit(r)
    \/ \E r \in Reqs : StatementFails(r)
    \/ \E c \in Cycles : \E sel \in Selections(env.BATCH_MAX) : Scan(c, sel)
    \/ \E c \in Cycles : Submit(c)
    \/ \E tx \in DOMAIN txs : Mine(tx)
    \/ \E c \in Cycles : Confirm(c)
    \/ \E c \in Cycles : Mark(c)

SpecVisible == InitVisible /\ [][NextVisible]_vars

-----------------------------------------------------------------------------
(* The signer and the envelope cipher on their own: one call of signProof, *)
(* or one call of encrypt, the stored form possibly altered, and one call  *)
(* of decrypt.                                                             *)

\* digests signed
SignDigests == 0..(HashSpace - 1) \cup {DigestSpace - 2, DigestSpace - 1}

\* strings encrypted: empty, ASCII, a ':' inside, a two-byte character, and a
\* lone surrogate (a JavaScript string that is not well-formed UTF-16)
MaxPlainLen == 4    \* longest string encrypted

PlainTexts ==
    {str \in {<<>>, <<"a">>, <<"0", "x", "1", "b">>, <<"a", ":", "b">>, <<"U+00E9">>,
              <<"U+D800">>, <<"0", "x", "1", "b", "c">>} : Len(str) <= MaxPlainLen}

\* longest stored form of such a string
MaxStoredLen == 2 * IvLength + 2 * TagLength + 2 + 2 * MaxPlainLen

\* ivs drawn: twelve bytes 00 or twelve bytes ab
CipherIvs == {0, 171}

\* characters an altered stored form may get
TamperChars == {"0", "f", "F", "z", ":"}

InitCipher == InitEngine

\* a call of signProof with the signing key loaded
SignProof(proofHash) ==
    /\ call.pc = "none"
    /\ privateKeyLoaded
    /\ call' = [pc |-> "signed", proofHash |-> proofHash,
                recovery |-> Secp256k1Sign(proofHash).recovery,
                signature |-> signProof(proofHash)]
    /\ UNCHANGED <<now, privateKeyLoaded, encryptionKeyLoaded, dbVars, req, used_at_start, jobVars>>

\* a call of encrypt with the encryption key loaded
Encrypt(plaintext, iv) ==
    /\ call.pc = "none"
    /\ encryptionKeyLoaded
    /\ call' = [pc |-> "encrypted", plaintext |-> plaintext,
                original |-> encrypt(plaintext, iv), stored |-> encrypt(plaintext, iv)]
    /\ UNCHANGED <<now, privateKeyLoaded, encryptionKeyLoaded, dbVars, req, used_at_start, jobVars>>

\* str with the character at position k replaced, removed, or with c put in
\* front of it (k = Len(str) + 1 appends)
Altered(str, kind, k, c) ==
    IF kind = "replace" THEN [str EXCEPT ![k] = c]
    ELSE IF kind = "delete" THEN SubSeq(str, 1, k - 1) \o SubSeq(str, k + 1, Len(str))
    ELSE SubSeq(str, 1, k - 1) \o <<c>> \o SubSeq(str, k, Len(str))

\* the stored form is changed in one place before it is read back
Tamper(kind, k, c) ==
    /\ call.pc = "encrypted"
    /\ call.stored = call.original
    /\ k \in 1..(Len(call.stored) + (IF kind = "insert" THEN 1 ELSE 0))
    /\ Altered(call.stored, kind, k, c) # call.stored
    /\ call' = [call EXCEPT !.stored = Altered(call.stored, kind, k, c)]
    /\ UNCHANGED <<now, privateKeyLoaded, encryptionKeyLoaded, dbVars, req, used_at_start, jobVars>>

\* a call of decrypt on the stored form, on a runtime that takes short
\* authentication tags or on one that does not
Decrypt(shortTags) ==
    /\ call.pc = "encrypted"
    /\ encryptionKeyLoaded
    /\ call' = [pc |-> "decrypted", plaintext |-> call.plaintext, original |-> call.original,
                stored |-> call.stored, shortTags |-> shortTags,
                out |-> decrypt(call.stored, shortTags)]
    /\ UNCHANGED <<now, privateKeyLoaded, encryptionKeyLoaded, dbVars, req, used_at_start, jobVars>>

NextCipher ==
    \/ \E proofHash \in SignDigests : SignProof(proofHash)
    \/ \E plaintext \in PlainTexts, iv \in CipherIvs : Encrypt(plaintext, iv)
    \/ \E kind \in {"replace", "delete", "insert"}, k \in 1..(MaxStoredLen + 1),
           c \in TamperChars : Tamper(kind, k, c)
    \/ \E shortTags \in BOOLEAN : Decrypt(shortTags)

SpecCipher == InitCipher /\ [][NextCipher]_vars

-----------------------------------------------------------------------------
(* The public verification endpoint next to POST /api/prove, in a process  *)
(* that started with or without its keys, over a table that holds an       *)
(* attestation issued earlier.                                             *)

\* the attestation issued before the process started: agent a1, rule r1
SeedProof ==
    LET action_data == [amount |-> Num(3)]
        ruleEval == evaluateRule(rules["r1"].conditions, action_data)
        generated == generateProof("a1", "r1", rules["r1"].conditions, action_data,
                                   ruleEval.evaluation, ruleEval.rule_met, 1, 0, 0, 0)
    IN [id |-> 0,
        agent_id |-> "a1",
        rule_id |-> "r1",
        action_data |-> action_data,
        evaluation |-> ruleEval.evaluation,
        rule_met |-> ruleEval.rule_met,
        decision_summary |-> ruleEval.summary,
        proof_hash |-> generated.proof_hash,
        signature_encrypted |-> generated.signature_encrypted,
        nonce |-> 1,
        on_chain_tx_hash |-> Null,
        created_at |-> 0]

\* ids that match the UUID pattern; NumReqs + 1 is on no row
UuidIds == 0..(NumReqs + 1)

\* the ids asked for; -1 stands for a string that is no UUID
VerifyIds == UuidIds \cup {-1}

InitVerify ==
    /\ now = 0
    /\ privateKeyLoaded \in BOOLEAN
    /\ encryptionKeyLoaded \in BOOLEAN
    /\ used_at_start = [u \in Users |-> CHOOSE n \in InitialUsed(u) : TRUE]
    /\ used_proofs_this_month = used_at_start
    /\ proof_nonce = [a \in Agents |-> IF a = SeedProof.agent_id THEN SeedProof.nonce ELSE 0]
    /\ proofs = {SeedProof}
    /\ req = [r \in Reqs |-> Idle]
    /\ call = NoCall
    /\ NoJob

\* a handler that answers with the whole row
getProofWholeRow(table, id) ==
    IF id \notin UuidIds
    THEN [status |-> 400, code |-> "INVALID_ID"]
    ELSE IF \A p \in table : p.id # id
    THEN [status |-> 404, code |-> "PROOF_NOT_FOUND"]
    ELSE [status |-> 200, code |-> "OK", body |-> CHOOSE p \in table : p.id = id]

\* GET /api/prove/:id on a table: the reply
getProof(table, id) ==
    IF id \notin UuidIds
    THEN [status |-> 400, code |-> "INVALID_ID"]
    ELSE IF \A p \in table : p.id # id
    THEN [status |-> 404, code |-> "PROOF_NOT_FOUND"]
    ELSE LET proof == CHOOSE p \in table : p.id = id
         IN [status |-> 200, code |-> "OK",
             body |-> [proof_id |-> proof.id,
                       proof_hash |-> proof.proof_hash,
                       rule_met |-> proof.rule_met,
                       evaluation |-> proof.evaluation,
                       summary |-> proof.decision_summary,
                       on_chain |-> proof.on_chain_tx_hash # Null,
                       on_chain_tx |-> proof.on_chain_tx_hash,
                       created_at |-> proof.created_at]]

\* a client asks for an attestation
GetProof(id) ==
    /\ call.pc = "none"
    /\ call' = [pc |-> "got", id |-> id, table |-> proofs, reply |-> getProof(proofs, id)]
    /\ UNCHANGED <<now, privateKeyLoaded, encryptionKeyLoaded, dbVars, req, used_at_start, jobVars>>

\* the requests of Spec with the clock standing still, and the read route
NextVerify ==
    \/ \E r \in Reqs, a \in Agents : requireApiKey(r, a)
    \/ \E r \in Reqs, rule_id \in DOMAIN rules \cup {"r0"}, action_data \in ActionDatas : prove(r, rule_id, action_data)
    \/ \E r \in Reqs : IncrementNonce(r)
    \/ \E r \in Reqs, iv \in IVs : GenerateProof(r, iv, now)
    \/ \E r \in Reqs : InsertProof(r)
    \/ \E r \in Reqs : IncrementUsed(r)
    \/ \E r \in Reqs : Commit(r)
    \/ \E r \in Reqs : StatementFails(r)
    \/ \E id \in VerifyIds : GetProof(id)

SpecVerify == InitVerify /\ [][NextVerify]_vars

-----------------------------------------------------------------------------
(* Properties of the attestation coordinator, checked under Spec.          *)

Answered(r) == req[r].pc \in {"rejected", "failed", "done"}

ProofsOfAgent(a) == {p \in proofs : p.agent_id = a}

ProofsOfUser(u) == {p \in proofs : AgentUser[p.agent_id] = u}

\* C1: for every agent the nonces of its persisted attestations are exactly
\* 1..k, k the agent's counter, each nonce on one attestation; and two
\* transactions that hold a nonce of one agent at the same time hold
\* different ones.
C1_NoncesContiguous ==
    /\ \A a \in Agents :
          /\ {p.nonce : p \in ProofsOfAgent(a)} = 1..proof_nonce[a]
          /\ Cardinality(ProofsOfAgent(a)) = proof_nonce[a]
    /\ \A r, o \in Reqs :
          (r # o /\ WroteNonce(r) /\ WroteNonce(o) /\ req[r].agent = req[o].agent)
            => req[r].nonce # req[o].nonce

\* two issuances of one agent have committed
C1_Witness == \E a \in Agents : proof_nonce[a] = 2 /\ Cardinality(ProofsOfAgent(a)) = 2

\* C2: a request that fails inside its transaction leaves the committed
\* counters and the proofs table as they were, and no row of a failed
\* request is ever in the table.
C2_AbortPersistsNothing ==
    /\ [](\A r \in Reqs : req[r].pc = "failed" => \A p \in proofs : p.id # r)
    /\ [][\A r \in Reqs :
            (InTx(r) /\ req'[r].pc = "failed")
              => /\ proof_nonce' = proof_nonce
                 /\ used_proofs_this_month' = used_proofs_this_month
                 /\ proofs' = proofs]_vars

\* a request failed at COMMIT, after all three writes
C2_Witness == \E r \in Reqs : req[r].pc = "failed" /\ req[r].step = "debited"

\* C3: a principal's counter has grown by the number of attestations
\* persisted for its agents.
C3_QuotaMatchesProofs ==
    \A u \in Users :
        used_proofs_this_month[u] - used_at_start[u] = Cardinality(ProofsOfUser(u))

\* one principal has two attestations and two debits
C3_Witness ==
    \E u \in Users :
        Cardinality(ProofsOfUser(u)) = 2 /\ used_proofs_this_month[u] = used_at_start[u] + 2

\* the counter the request read is at or above the limit of the user's tier
AtLimit(user) == user.used_proofs_this_month >= TIERS[user.tier].monthly_limit

\* C4 as claimed: a request of a principal of any tier at or above its limit
\* is answered quota exceeded and persists nothing.
C4_AnyTierCapped ==
    \A r \in Reqs :
        (Answered(r) /\ AtLimit(req[r].user))
          => req[r].code = "QUOTA_EXCEEDED" /\ \A p \in proofs : p.id # r

\* C4 amended: a request of a free-tier principal at or above the limit is
\* answered quota exceeded, no row of it exists, and the step that answers
\* it changes neither the agent counter nor the proofs table.
C4_FreeTierCapped ==
    /\ [](\A r \in Reqs :
            (Answered(r) /\ req[r].user.tier = "free" /\ AtLimit(req[r].user))
              => req[r].code = "QUOTA_EXCEEDED" /\ \A p \in proofs : p.id # r)
    /\ [][\A r \in Reqs :
            (/\ req[r].pc = "authed" /\ req'[r].pc # "authed"
             /\ req[r].user.tier = "free" /\ AtLimit(req[r].user))
              => /\ req'[r].pc = "rejected"
                 /\ req'[r].code = "QUOTA_EXCEEDED"
                 /\ proof_nonce' = proof_nonce
                 /\ proofs' = proofs]_vars

\* a free-tier request that read a counter at the limit was refused
C4_Witness ==
    \E r \in Reqs :
        /\ Answered(r) /\ req[r].user.tier = "free" /\ AtLimit(req[r].user)
        /\ req[r].code = "QUOTA_EXCEEDED"

\* C5 as claimed: the counter of a capped (free-tier) principal never exceeds
\* the tier limit.
C5_QuotaNeverExceeded ==
    \A u \in Users :
        UserTier[u] = "free"
          => used_proofs_this_month[u] <= TIERS[UserTier[u]].monthly_limit

\* the preconditions in the claimed order, each with its error; quota(user)
\* says whether the quota precondition fails
FailingPreconditions(quota(_), user, agent, rule_id) ==
    LET found == rule_id \in DOMAIN rules
        checks ==
            <<[fails |-> quota(user), code |-> "QUOTA_EXCEEDED"],
              [fails |-> ~found, code |-> "RULE_NOT_FOUND"],
              [fails |-> found /\ rules[rule_id].agent_id # agent, code |-> "RULE_MISMATCH"],
              [fails |-> found /\ rules[rule_id].status # "active", code |-> "RULE_ARCHIVED"],
              [fails |-> found /\ ~validateConditions(rules[rule_id].conditions).valid,
               code |-> "RULE_CORRUPT"]>>
    IN SelectSeq(checks, LAMBDA c : c.fails)

FirstFailure(quota(_), user, agent, rule_id) ==
    LET failing == FailingPreconditions(quota, user, agent, rule_id)
    IN IF failing = <<>> THEN "OK" ELSE Head(failing).code

AtLimitFree(user) == user.tier = "free" /\ AtLimit(user)

C7_DigestUnique ==
    /\ [](\A p, q \in proofs : p.proof_hash = q.proof_hash => p = q)
    /\ [][\A r \in Reqs :
            (/\ req[r].pc = "generated" /\ req'[r] # req[r]
             /\ \E p \in proofs : p.proof_hash = req[r].generated.proof_hash)
              => /\ req'[r].pc = "failed"
                 /\ proof_nonce' = proof_nonce
                 /\ used_proofs_this_month' = used_proofs_this_month
                 /\ proofs' = proofs]_vars

\* an issuance was aborted by the UNIQUE constraint
C7_Witness ==
    \E r \in Reqs : req[r].pc = "failed" /\ req[r].error = "unique violation"

\* the payload rebuilt from a persisted row: its columns, the conditions of
\* the rule it references and its issue timestamp
RebuiltPayload(p) ==
    buildProofPayload(p.agent_id, p.rule_id, rules[p.rule_id].conditions, p.action_data,
                      p.evaluation, p.rule_met, p.nonce, p.created_at)

\* C8 as claimed: the digest of every persisted attestation is the hash of
\* the payload rebuilt from the persisted row.
C8_DigestReproducible ==
    \A p \in proofs : hashPayload(RebuiltPayload(p)) = p.proof_hash

\* C11: for every persisted attestation, rule_met is true if and only if
\* every result of its evaluation has pass = true.
C11_MetIffAllPass ==
    \A p \in proofs :
        p.rule_met <=> \A i \in 1..Len(p.evaluation) : p.evaluation[i].pass

\* an attestation of two results of which one passed and one failed is
\* persisted (not met) beside one whose results all passed (met)
C11_Witness ==
    /\ \E p \in proofs :
          /\ Len(p.evaluation) = 2 /\ ~p.rule_met
          /\ \E i, j \in 1..2 : p.evaluation[i].pass /\ ~p.evaluation[j].pass
    /\ \E p \in proofs : p.rule_met

\* C19: evaluateRule of an empty condition list is not met whatever the
\* action record, and no persisted attestation is for a rule whose condition
\* list is empty.
C19_EmptyRuleNeverAttested ==
    /\ \A ad \in ActionDatas \cup {EmptyRecord} : ~evaluateRule(<<>>, ad).rule_met
    /\ \A p \in proofs : rules[p.rule_id].conditions # <<>>

\* a request of the owning agent for an active rule that has lost its
\* conditions was answered RULE_CORRUPT
C19_Witness ==
    \E r \in Reqs :
        /\ req[r].pc = "rejected" /\ req[r].code = "RULE_CORRUPT"
        /\ rules[req[r].rule_id].conditions = <<>>
        /\ rules[req[r].rule_id].status = "active"
        /\ rules[req[r].rule_id].agent_id = req[r].agent

-----------------------------------------------------------------------------
(* Properties of the canonicalizer, checked under SpecCanon.               *)

\* C9 as claimed: two calls at the same time whose arguments differ in
\* exactly one input return different strings.
C9_EveryInputInPayload ==
    (call.pc = "second" /\ call.t1 = call.t2
        /\ Cardinality(Differing(call.args1, call.args2)) = 1)
      => call.out1 # call.out2

\* C10 as claimed: two calls with equal arguments return identical strings,
\* whatever happens between them.
C10_Deterministic ==
    (call.pc = "second" /\ call.args1 = call.args2) => call.out1 = call.out2

-----------------------------------------------------------------------------
(* Properties of the rule engine, checked under SpecEngine.                *)

\* the action record has an entry for the field and the entry is not null
Present(actionData, field) == field \in DOMAIN actionData /\ actionData[field] # Null

\* the positions of the evaluated list
Evaluated == IF call.pc = "evaluated" THEN 1..Len(call.conditions) ELSE {}

\* the positions whose condition has one of the operators and whose field is
\* present in the action record
EvaluatedPresent(ops) ==
    {i \in Evaluated :
        /\ call.conditions[i].op \in ops
        /\ Present(call.actionData, call.conditions[i].field.name)}

\* C12 as claimed: a validated condition gets the missing-field outcome
\* (pass = false, actual = null) exactly when the action record has no entry
\* for its field or the entry is null; 0, false and "" are evaluated.
C12_MissingIffAbsent ==
    \A i \in Evaluated :
        ConditionOk(call.conditions[i]) =>
            ((call.out.evaluation[i].actual = Null /\ ~call.out.evaluation[i].pass)
                <=> ~Present(call.actionData, call.conditions[i].field.name))

\* C13 as claimed: with actual present, = passes iff actual and value have
\* the same type and the same value, and != passes iff they do not.
C13_StrictEquality ==
    /\ \A i \in EvaluatedPresent({"="}) :
          call.out.evaluation[i].pass
              <=> call.actionData[call.conditions[i].field.name] = call.conditions[i].value
    /\ \A i \in EvaluatedPresent({"!="}) :
          call.out.evaluation[i].pass
              <=> call.actionData[call.conditions[i].field.name] # call.conditions[i].value

\* the relation an ordering operator names
Relation(op, x, y) ==
    CASE op = "<" -> x < y
      [] op = "<=" -> x <= y
      [] op = ">" -> x > y
      [] op = ">=" -> x >= y

\* C14: with actual present and a number as value, <, <=, >, >= pass iff
\* actual coerces to a number that stands in the relation to value; an actual
\* that does not coerce fails all four.
C14_NumericComparison ==
    \A i \in EvaluatedPresent({"<", "<=", ">", ">="}) :
        LET cond == call.conditions[i]
            number == JsNumber(call.actionData[cond.field.name])
        IN ConditionOk(cond) =>
             (call.out.evaluation[i].pass
                <=> (number # NaN /\ Relation(cond.op, number.num, cond.value.num)))

\* a string that coerces to the bound itself passed <=
C14_Witness ==
    \E i \in EvaluatedPresent({"<="}) :
        /\ call.actionData[call.conditions[i].field.name] = Str(<<"1">>)
        /\ call.conditions[i].value = Num(1)
        /\ call.out.evaluation[i].pass

\* C15 as claimed: with actual present, IN passes iff value is a list
\* containing actual, NOT IN iff value is a list not containing it, CONTAINS
\* iff actual is a string containing the string form of value, NOT CONTAINS
\* iff actual is a string not containing it.
C15_MembershipAndSubstring ==
    \A i \in EvaluatedPresent({"IN", "NOT IN", "CONTAINS", "NOT CONTAINS"}) :
        LET cond == call.conditions[i]
            actual == call.actionData[cond.field.name]
            isList == cond.value.type = "array"
            contains == \E j \in 1..Len(cond.value.arr) : cond.value.arr[j] = actual
            isString == actual.type = "string"
            substring == StringIncludes(actual.str, JsString(cond.value))
            pass == call.out.evaluation[i].pass
        IN CASE cond.op = "IN" -> (pass <=> (isList /\ contains))
             [] cond.op = "NOT IN" -> (pass <=> (isList /\ ~contains))
             [] cond.op = "CONTAINS" -> (pass <=> (isString /\ substring))
             [] cond.op = "NOT CONTAINS" -> (pass <=> (isString /\ ~substring))

\* C16: the summary is "All N condition(s) passed" when met and "K of N
\* condition(s) failed" otherwise, K the number of results with pass = false,
\* and 1 <= K <= N when N >= 1 and not met.
C16_Summary ==
    call.pc = "evaluated" =>
        LET results == call.out.evaluation
            N == Len(results)
            K == Cardinality({i \in 1..N : ~results[i].pass})
            noun == IF N > 1 THEN "conditions" ELSE "condition"
        IN /\ call.out.rule_met => call.out.summary = <<"All", N, noun, "passed">>
           /\ ~call.out.rule_met => call.out.summary = <<K, "of", N, noun, "failed">>
           /\ (~call.out.rule_met /\ N >= 1) => (1 <= K /\ K <= N)

\* a rule of three conditions was evaluated with exactly two of them failing
C16_Witness ==
    /\ call.pc = "evaluated"
    /\ Len(call.out.evaluation) = 3
    /\ Cardinality({i \in 1..3 : ~call.out.evaluation[i].pass}) = 2
    /\ call.out.summary[1] = 2

\* a condition as the claim describes a well-formed one
WellFormed(c) ==
    /\ "field" \in DOMAIN c /\ c.field.type = "string" /\ c.field.name # ""
    /\ "op" \in DOMAIN c
    /\ c.op \in {"=", "!=", "<", "<=", ">", ">=", "IN", "NOT IN", "CONTAINS", "NOT CONTAINS"}
    /\ "value" \in DOMAIN c
    /\ (c.op \in {"IN", "NOT IN"} => c.value.type = "array")
    /\ (c.op \in {"<", "<=", ">", ">="} => c.value.type = "number")

\* C17: validateConditions returns valid exactly for lists of 1 to 20
\* conditions that are all well-formed; any value is accepted for =, != and
\* CONTAINS / NOT CONTAINS.
C17_ValidExactly ==
    call.pc = "validated" =>
        (call.out.valid
            <=> /\ 1 <= Len(call.conditions) /\ Len(call.conditions) <= 20
                /\ \A i \in 1..Len(call.conditions) : WellFormed(call.conditions[i]))

\* a list of exactly 20 well-formed conditions was found valid
C17_Witness ==
    /\ call.pc = "validated"
    /\ Len(call.conditions) = 20
    /\ call.out.valid

\* C18 as claimed: validateConditions never raises; it returns OK or one
\* violation, list-level violations first, else that of the lowest-index
\* ill-formed condition.
C18_OneViolationNeverRaises ==
    call.pc = "validated" =>
        LET n == Len(call.conditions)
            bad == {i \in 1..n : ~WellFormed(call.conditions[i])}
        IN /\ ~call.out.raised
           /\ (n = 0 \/ n > 20) => (~call.out.valid /\ Len(call.out.error) = 1)
           /\ (1 <= n /\ n <= 20 /\ bad # {}) =>
                 /\ ~call.out.valid
                 /\ Len(call.out.error) = 3
                 /\ \A i \in bad : call.out.error[2] + 1 <= i
                 /\ call.out.error[2] + 1 \in bad

-----------------------------------------------------------------------------
(* Properties of the Merkle tree, checked under SpecMerkle.                *)

\* H(sort(x, y)): the hash of the pair with the smaller digest first
HashSorted(x, y) == keccak256(IF x <= y THEN <<x, y>> ELSE <<y, x>>)

\* the root the level-by-level construction with promotion gives, written
\* out for up to seven leaves
PromotedRoot(h) ==
    LET p12 == HashSorted(h[1], h[2])
        p34 == HashSorted(h[3], h[4])
        p56 == HashSorted(h[5], h[6])
        p1234 == HashSorted(p12, p34)
    IN CASE Len(h) = 1 -> h[1]
         [] Len(h) = 2 -> p12
         [] Len(h) = 3 -> HashSorted(p12, h[3])
         [] Len(h) = 4 -> p1234
         [] Len(h) = 5 -> HashSorted(p1234, h[5])
         [] Len(h) = 6 -> HashSorted(p1234, p56)
         [] Len(h) = 7 -> HashSorted(p1234, HashSorted(p56, h[7]))

\* the root of three leaves when the odd leaf is paired with itself
DuplicatedRoot3(h) == HashSorted(HashSorted(h[1], h[2]), HashSorted(h[3], h[3]))

\* C20: computeMerkleRoot pairs adjacent nodes smaller-first and hashes them,
\* promotes an odd last node unchanged, and returns a single leaf as the
\* root; for three leaves the root is H(sort(H(sort(h1,h2)), h3)) and is not
\* the root of the tree that duplicates the odd leaf.
C20_MerkleRoot ==
    (call.pc = "rooted" /\ Len(call.leaves) \in 1..7) =>
        /\ ~call.out.raised
        /\ call.out.root = PromotedRoot(call.leaves)
        /\ Len(call.leaves) = 3 => call.out.root # DuplicatedRoot3(call.leaves)

\* the root of three leaves was computed, the first pair out of byte order
\* and the promoted leaf smaller than the pair's hash
C20_Witness ==
    /\ call.pc = "rooted"
    /\ Len(call.leaves) = 3
    /\ call.leaves[1] > call.leaves[2]
    /\ call.leaves[3] < HashSorted(call.leaves[1], call.leaves[2])
    /\ call.out.root = HashSorted(HashSorted(call.leaves[2], call.leaves[1]), call.leaves[3])

\* C21: for every leaf list and every leaf in it, the inclusion proof made of
\* the siblings met on the way up (none where the node is promoted) makes the
\* sort-then-hash verifier arrive at the root computeMerkleRoot returned.
C21_InclusionProofVerifies ==
    call.pc = "verified" =>
        /\ call.included
        /\ Climb(call.leaves[call.index], call.merkleProof) = computeMerkleRoot(call.leaves).root

\* the last of five leaves, promoted on the first two levels, was verified
\* with a proof of one element
C21_Witness ==
    /\ call.pc = "verified"
    /\ Len(call.leaves) = 5 /\ call.index = 5
    /\ Len(call.merkleProof) = 1
    /\ call.included

-----------------------------------------------------------------------------
(* Properties of the batch job, checked under SpecBatch.                   *)

\* the row with an id, in a table
RowOf(table, id) == CHOOSE p \in table : p.id = id

\* the ids a run selected
Candidates(c) == {cycle[c].unbatched[i].id : i \in DOMAIN cycle[c].unbatched}

\* C22: a step of a batch run other than its final UPDATE leaves the proofs
\* table as it was, so a run whose external commit fails (rejected at
\* submission, ledger unreachable, confirmation failed) modifies no
\* attestation; and the final UPDATE marks every candidate of the run with
\* the run's transaction hash, never some of them.
C22_FailedCommitModifiesNothing ==
    [][\A c \in Cycles :
          cycle'[c] # cycle[c] =>
              IF cycle'[c].outcome = "updated"
              THEN \A id \in Candidates(c) :
                       RowOf(proofs', id).on_chain_tx_hash = TxHash(cycle[c].tx)
              ELSE proofs' = proofs]_vars

\* a run ended in the catch because its transaction reverted, and its
\* candidates are all unbatched
C22_Witness ==
    \E c \in Cycles :
        /\ cycle[c].outcome = "failed"
        /\ cycle[c].step = "submitted"
        /\ txs[cycle[c].tx].status = "reverted"
        /\ Candidates(c) # {}
        /\ \A id \in Candidates(c) : RowOf(proofs, id).on_chain_tx_hash = Null

\* C23: with the ledger configured and the default batch maximum, when batch
\* runs keep running and the ledger is reachable from some point on, every
\* committed attestation eventually carries a ledger transaction reference.
C23_EveryAttestationEventuallyBatched ==
    \A i \in RowIds :
        (env.configured /\ env.BATCH_MAX = MaxBatch /\ \E p \in proofs : p.id = i)
            ~> (\E p \in proofs : p.id = i /\ p.on_chain_tx_hash # Null)

\* the digests a transaction carries
TxLeaves(tx) == {txs[tx].proofHashes[i] : i \in DOMAIN txs[tx].proofHashes}

\* C24: at most one run of the batch job is between its scan and its final
\* update at any time, and no digest is a leaf of two transactions sent to
\* the ledger.
C24_AtMostOneBatcher ==
    /\ Cardinality({c \in Cycles : Running(c)}) <= 1
    /\ \A t1, t2 \in DOMAIN txs : t1 # t2 => TxLeaves(t1) \cap TxLeaves(t2) = {}

\* the transaction a row's reference names
TxOf(p) == CHOOSE tx \in DOMAIN txs : p.on_chain_tx_hash = TxHash(tx)

\* C25: a row that carries a transaction reference names a transaction that
\* was mined and succeeded, whose leaves include the row's digest, and the
\* digest is registered in the contract.
C25_MarkedImpliesRegistered ==
    \A p \in proofs :
        p.on_chain_tx_hash # Null =>
            /\ \E tx \in DOMAIN txs : p.on_chain_tx_hash = TxHash(tx)
            /\ txs[TxOf(p)].status = "success"
            /\ p.proof_hash \in TxLeaves(TxOf(p))
            /\ p.proof_hash \in registry.proofExists

\* two rows are marked with different transactions while a third is unbatched
C25_Witness ==
    \E p, q, u \in proofs :
        /\ p.on_chain_tx_hash # Null
        /\ q.on_chain_tx_hash # Null
        /\ p.on_chain_tx_hash # q.on_chain_tx_hash
        /\ u.on_chain_tx_hash = Null

\* a run that called contract.registerBatch with its candidates
Submitted(c) ==
    \/ cycle[c].pc \in {"submitted", "confirmed"}
    \/ cycle[c].pc = "done" /\ cycle[c].step \in {"scanned", "submitted", "confirmed"}

Distinct(seq) == \A i, j \in DOMAIN seq : i # j => seq[i] # seq[j]

\* the candidates of a run number between 1 and a limit and have pairwise
\* distinct digests
BatchWithin(c, limit) ==
    /\ Len(cycle[c].unbatched) \in 1..limit
    /\ Distinct([i \in DOMAIN cycle[c].unbatched |-> cycle[c].unbatched[i].proof_hash])

\* every transaction sent, and every batch the contract stored, has between 1
\* and the registry limit of leaves, pairwise distinct; the batches accepted
\* share no leaf
LedgerWithin ==
    /\ \A tx \in DOMAIN txs :
           /\ txs[tx].proofCount \in 1..MaxBatch
           /\ Len(txs[tx].proofHashes) = txs[tx].proofCount
           /\ Distinct(txs[tx].proofHashes)
    /\ \A b \in DOMAIN registry.batches : registry.batches[b].proofCount \in 1..MaxBatch
    /\ \A t1, t2 \in DOMAIN txs :
           t1 # t2 /\ txs[t1].status = "success" /\ txs[t2].status = "success"
               => TxLeaves(t1) \cap TxLeaves(t2) = {}

\* a batch above the registry limit is rejected at submission and marks no
\* attestation
OversizeRejected ==
    \A c \in Cycles :
        Len(cycle[c].unbatched) > MaxBatch =>
            /\ cycle[c].pc \notin {"submitted", "confirmed"}
            /\ cycle[c].outcome # "updated"
            /\ cycle[c].tx = 0

-----------------------------------------------------------------------------
(* Properties of a process with or without keys and of the public          *)
(* verification endpoint, checked under SpecVerify.                        *)

\* C27: in a process that started without its signing key or without its
\* encryption key, no request gets past generateProof: a request that passed
\* the preconditions fails with INTERNAL_ERROR, the agent counters, the quota
\* counters and the proofs table stay as they were at startup, and GET
\* /api/prove/:id still returns the attestation issued earlier.
C27_NoKeysNoIssuance ==
    (~privateKeyLoaded \/ ~encryptionKeyLoaded) =>
        /\ \A r \in Reqs :
               /\ req[r].pc \notin {"generated", "inserted", "debited", "done"}
               /\ (req[r].pc = "failed" /\ req[r].step = "nonce")
                      => req[r].code = "INTERNAL_ERROR"
        /\ proofs = {SeedProof}
        /\ proof_nonce = [a \in Agents |-> IF a = SeedProof.agent_id THEN SeedProof.nonce ELSE 0]
        /\ used_proofs_this_month = used_at_start
        /\ (call.pc = "got" /\ call.id = SeedProof.id)
               => /\ call.reply.status = 200
                  /\ call.reply.body.proof_hash = SeedProof.proof_hash

\* only the encryption key is missing: a request of agent a1 took nonce 2,
\* failed in generateProof, and the earlier attestation was then returned
C27_Witness ==
    /\ privateKeyLoaded /\ ~encryptionKeyLoaded
    /\ \E r \in Reqs :
           /\ req[r].pc = "failed" /\ req[r].step = "nonce" /\ req[r].error = "key not loaded"
           /\ req[r].agent = SeedProof.agent_id
    /\ call.pc = "got" /\ call.id = SeedProof.id /\ call.reply.status = 200

\* a table whose row id carries another signature_encrypted
Resealed(table, id, sealed) ==
    {IF p.id = id THEN [p EXCEPT !.signature_encrypted = sealed] ELSE p : p \in table}

\* other values the column could hold for a row: the same signature under
\* another iv, another plaintext, nothing
OtherSealed(p) ==
    {encrypt(signProof(p.proof_hash), MaxIv + 1), encrypt(<<"0", "x">>, 0), <<>>}
        \ {p.signature_encrypted}

\* the members of the 201 body
ProveResponseFields ==
    {"proof_id", "proof_hash", "rule_met", "evaluation", "summary", "on_chain", "verify_url",
     "created_at"}

\* C28: the reply of GET /api/prove/:id is the same for a table that differs
\* only in the signature_encrypted of the row asked for, and the 201 body of
\* POST /api/prove has no member for the signature or its encrypted form and
\* is made of the row's other columns.
C28_ReplyIndependentOfSignature ==
    /\ call.pc = "got" =>
           \A p \in call.table : \A sealed \in OtherSealed(p) :
               getProof(Resealed(call.table, p.id, sealed), call.id) = call.reply
    /\ \A r \in Reqs :
           req[r].pc = "done" =>
               /\ DOMAIN req[r].body = ProveResponseFields
               /\ \A p \in proofs :
                      p.id = r =>
                          /\ req[r].body.proof_id = p.id
                          /\ req[r].body.proof_hash = p.proof_hash
                          /\ req[r].body.rule_met = p.rule_met
                          /\ req[r].body.evaluation = p.evaluation
                          /\ req[r].body.summary = p.decision_summary
                          /\ req[r].body.created_at = p.created_at

\* an attestation was issued and answered with 201, and was then returned by
\* the verification endpoint
C28_Witness ==
    /\ call.pc = "got" /\ call.reply.status = 200 /\ call.id \in Reqs
    /\ req[call.id].pc = "done"

-----------------------------------------------------------------------------
(* Properties of the signer and the envelope cipher, checked under         *)
(* SpecCipher.                                                             *)

IsLowerHex(str) == \A i \in DOMAIN str : \E d \in DOMAIN HexDigits : HexDigits[d] = str[i]

\* C29: what encrypt returns has exactly three ':'-separated parts of
\* lowercase hex, 12 bytes of iv, 16 bytes of tag and the ciphertext; decrypt
\* of it returns the string encrypted; decrypt of a form altered in any place
\* raises and returns no plaintext.
C29_RoundTripAndTamper ==
    /\ call.pc \in {"encrypted", "decrypted"} =>
           LET parts == Split(call.original)
           IN /\ Len(parts) = 3
              /\ \A i \in 1..3 : IsLowerHex(parts[i])
              /\ Len(parts[1]) = 2 * IvLength
              /\ Len(parts[2]) = 2 * TagLength
              /\ Len(parts[3]) = 2 * Len(Utf8Encode(call.plaintext))
    /\ (call.pc = "decrypted" /\ call.stored = call.original) =>
           /\ ~call.out.raised
           /\ call.out.plaintext = call.plaintext
    /\ (call.pc = "decrypted" /\ call.stored # call.original) => call.out.raised

\* the value of a big-endian byte string
RECURSIVE BytesToNat(_)
BytesToNat(bytes) ==
    IF bytes = <<>> THEN 0
    ELSE 256 * BytesToNat(SubSeq(bytes, 1, Len(bytes) - 1)) + bytes[Len(bytes)]

\* C30: a signature signProof returns is "0x" followed by 130 lowercase hex
\* characters: r and s of the secp256k1 signature as 32 bytes each, then one
\* byte v = 27 + recovery, which is 27 or 28.
C30_SignatureFormat ==
    call.pc = "signed" =>
        LET hex == SubSeq(call.signature, 3, Len(call.signature))
            bytes == HexToBytes(hex)
        IN /\ SubSeq(call.signature, 1, 2) = <<"0", "x">>
           /\ Len(hex) = 130
           /\ IsLowerHex(hex)
           /\ Len(bytes) = 65
           /\ BytesToNat(SubSeq(bytes, 1, 32)) = Secp256k1Sign(call.proofHash).r
           /\ BytesToNat(SubSeq(bytes, 33, 64)) = Secp256k1Sign(call.proofHash).s
           /\ bytes[65] = 27 + call.recovery
           /\ bytes[65] \in {27, 28}

\* a signature with recovery bit 1 whose r needs more than three bytes
C30_Witness ==
    /\ call.pc = "signed"
    /\ call.recovery = 1
    /\ SubSeq(call.signature, 131, 132) = <<"1", "c">>
    /\ Secp256k1Sign(call.proofHash).r >= 65536


-----------------------------------------------------------------------------
(* Further properties of POST /api/prove, under Spec.                      *)

\* C32: in every reachable state, every persisted attestation references a
\* rule whose owning agent is the attestation's agent.
C32_RuleOwnedByAgent ==
    \A p \in proofs :
        /\ p.rule_id \in DOMAIN rules
        /\ rules[p.rule_id].agent_id = p.agent_id

\* an attestation is stored, and a request naming another agent's active
\* rule was turned away
C32_Witness ==
    /\ proofs # {}
    /\ \E r \in Reqs :
          /\ req[r].pc = "rejected"
          /\ req[r].code = "RULE_MISMATCH"
          /\ rules[req[r].rule_id].status = "active"

\* C39: the nonce written to an attestation's row is the nonce inside the
\* payload that was hashed and signed and is the value the agent's counter
\* took in that transaction; the counter changes only when an issuance
\* transaction commits, to that value, and a row is stored only then.
C39_NonceOfRowPayloadAndCounter ==
    /\ [][\A r \in Reqs :
            /\ (req[r].pc = "begun" /\ req'[r].pc = "nonce") =>
                    req'[r].nonce = proof_nonce[req[r].agent] + 1
            /\ (req[r].pc = "nonce" /\ req'[r].pc = "generated") =>
                    /\ req'[r].generated.nonce = req[r].nonce
                    /\ req'[r].generated.proof_hash =
                           hashPayload(buildProofPayload(
                               req[r].agent, req[r].rule_id, rules[req[r].rule_id].conditions,
                               req[r].action_data, req[r].ruleEval.evaluation,
                               req[r].ruleEval.rule_met, req[r].nonce, now))
            /\ (req[r].pc = "generated" /\ req'[r].pc = "inserted") =>
                    /\ req'[r].row.nonce = req[r].nonce
                    /\ req'[r].row.proof_hash = req[r].generated.proof_hash
            /\ (req[r].pc = "debited" /\ req'[r].pc = "done") =>
                    /\ req[r].row \in proofs'
                    /\ proof_nonce'[req[r].agent] = req[r].row.nonce]_vars
    /\ [][proof_nonce' # proof_nonce =>
            \E r \in Reqs :
                /\ req[r].pc = "debited" /\ req'[r].pc = "done"
                /\ proof_nonce' = [proof_nonce EXCEPT ![req[r].agent] = req[r].nonce]]_vars
    /\ [][\A p \in proofs' \ proofs :
            \E r \in Reqs : req[r].pc = "debited" /\ req'[r].pc = "done" /\ p = req[r].row]_vars

\* an agent's second attestation is stored with nonce 1: its first issuance
\* had taken nonce 1 and was rolled back
C39_Witness ==
    \E r, o \in Reqs :
        /\ req[r].pc = "done" /\ req[o].pc = "failed"
        /\ req[o].agent = req[r].agent
        /\ req[o].step \in {"nonce", "generated", "inserted", "debited"}
        /\ proof_nonce[req[r].agent] = 1
        /\ \E p \in proofs : p.id = r /\ p.nonce = 1

-----------------------------------------------------------------------------
(* Further properties of the rule engine, under SpecEngine.                *)

\* C36: evaluateRule returns exactly one result per condition, in the
\* conditions' input order; result i carries the field, operator and expected
\* value of condition i.
C36_OneResultPerCondition ==
    call.pc = "evaluated" =>
        /\ Len(call.out.evaluation) = Len(call.conditions)
        /\ \A i \in 1..Len(call.conditions) :
              /\ call.out.evaluation[i].field = call.conditions[i].field
              /\ call.out.evaluation[i].op = call.conditions[i].op
              /\ call.out.evaluation[i].expected = call.conditions[i].value

\* a rule of MaxEvalLen conditions was evaluated whose first and last
\* conditions differ and of which one passed and another failed
C36_Witness ==
    /\ call.pc = "evaluated"
    /\ Len(call.conditions) = MaxEvalLen
    /\ call.conditions[1] # call.conditions[MaxEvalLen]
    /\ \E i, j \in 1..MaxEvalLen : call.out.evaluation[i].pass /\ ~call.out.evaluation[j].pass

-----------------------------------------------------------------------------
(* Further properties of the batch job, under SpecBatch.                   *)

\* the columns of a row that the INSERT sets for good
Snapshot(p) ==
    [id |-> p.id, agent_id |-> p.agent_id, rule_id |-> p.rule_id,
     action_data |-> p.action_data, evaluation |-> p.evaluation, rule_met |-> p.rule_met,
     decision_summary |-> p.decision_summary, proof_hash |-> p.proof_hash,
     signature_encrypted |-> p.signature_encrypted, nonce |-> p.nonce,
     created_at |-> p.created_at]

\* C33: once persisted, an attestation stays in the table with its digest,
\* nonce, evaluation, met, summary and action snapshot as inserted; its ledger
\* transaction reference changes at most once, from absent to a value, and
\* a reference once set is never changed or cleared.
C33_RowChangesAtMostOnce ==
    [][\A p \in proofs :
          \E q \in proofs' :
              /\ Snapshot(q) = Snapshot(p)
              /\ p.on_chain_tx_hash # Null => q.on_chain_tx_hash = p.on_chain_tx_hash
              /\ \A o \in proofs' : o.id = p.id => o = q]_vars

\* a row carries a ledger reference, a later run that had scanned the same
\* row failed at its receipt, and a row was committed in between
C33_Witness ==
    \E p, n \in proofs :
        /\ p.on_chain_tx_hash # Null
        /\ n.on_chain_tx_hash = Null
        /\ \E c \in Cycles :
              /\ cycle[c].outcome = "failed"
              /\ cycle[c].step = "submitted"
              /\ \E i \in DOMAIN cycle[c].unbatched : cycle[c].unbatched[i].id = p.id

\* the unbatched rows by created_at and, among equal created_at, by id, cut
\* at the limit
ByTimeThenId(limit) ==
    LET before(p, q) ==
            \/ p.created_at < q.created_at
            \/ p.created_at = q.created_at /\ p.id < q.id
    IN CHOOSE sel \in Selections(limit) :
           /\ \A i, j \in DOMAIN sel : i < j => before(sel[i], sel[j])
           /\ \A p \in Unbatched :
                  (\A i \in DOMAIN sel : sel[i] # p) => \A i \in DOMAIN sel : before(sel[i], p)

\* C34: the list a run selects is a function of the stored attestations: the
\* unbatched ones by issue time ascending, ties broken by identifier, cut at
\* the batch maximum; so is the root computed from it.
C34_ScanDeterministic ==
    [][\A c \in Cycles :
          (~Running(c) /\ cycle'[c] # cycle[c]) =>
              LET sel == ByTimeThenId(env.BATCH_MAX)
                  leaves == [i \in DOMAIN sel |-> sel[i].proof_hash]
              IN /\ cycle'[c].unbatched =
                        [i \in DOMAIN sel |-> [id |-> sel[i].id, proof_hash |-> sel[i].proof_hash]]
                 /\ Len(sel) > 0 => cycle'[c].merkleRoot = Num(computeMerkleRoot(leaves).root)]_vars

\* C37: when the ledger endpoint, the contract address or the deployer key is
\* not configured, no run passes the configuration test: no call is made to
\* the ledger, the registry is untouched and every attestation keeps an
\* absent ledger reference.
C37_UnconfiguredTouchesNothing ==
    ~env.configured =>
        /\ txs = <<>>
        /\ registry = EmptyRegistry
        /\ \A p \in proofs : p.on_chain_tx_hash = Null
        /\ \A c \in Cycles :
              /\ cycle[c].pc \in {"idle", "done"}
              /\ cycle[c].outcome \in {"none", "no unbatched proofs", "not configured"}

\* a run found attestations to batch and returned at the configuration test
C37_Witness ==
    /\ ~env.configured
    /\ \E c \in Cycles :
          /\ cycle[c].outcome = "not configured"
          /\ Len(cycle[c].unbatched) = env.BATCH_MAX
    /\ Cardinality(proofs) = NumRows

-----------------------------------------------------------------------------
(* Properties of the batch job beside POST /api/prove, under SpecVisible.  *)

\* C35: a run only lists attestations whose issuing transaction had
\* committed before its scan: the row of an issuance in flight or rolled back
\* is never a leaf of a scan or of a ledger transaction, and every committed
\* row without a ledger reference is listed by the next scan (up to the batch
\* limit), whenever its transaction began.
C35_OnlyCommittedBatched ==
    /\ [][\A c \in Cycles :
            (~Running(c) /\ cycle'[c] # cycle[c]) =>
                LET listed == {cycle'[c].unbatched[i].id : i \in DOMAIN cycle'[c].unbatched}
                    eligible == {p.id : p \in {q \in proofs : q.on_chain_tx_hash = Null}}
                IN /\ listed \subseteq eligible
                   /\ \A r \in listed : req[r].pc = "done"
                   /\ Cardinality(eligible) <= env.BATCH_MAX => listed = eligible]_vars
    /\ [](\A c \in Cycles :
            \A i \in DOMAIN cycle[c].unbatched :
                /\ req[cycle[c].unbatched[i].id].pc = "done"
                /\ \E p \in proofs :
                      /\ p.id = cycle[c].unbatched[i].id
                      /\ p.proof_hash = cycle[c].unbatched[i].proof_hash)
    /\ [](\A tx \in DOMAIN txs :
            \A i \in DOMAIN txs[tx].proofHashes :
                \E p \in proofs : p.proof_hash = txs[tx].proofHashes[i])

\* a run holds a scan of one row while the row of a transaction that began
\* earlier is inserted and not committed
C35_Witness ==
    \E c \in Cycles, r \in Reqs :
        /\ cycle[c].pc = "scanned"
        /\ Len(cycle[c].unbatched) = 1
        /\ req[r].pc \in {"inserted", "debited"}
        /\ \E p \in proofs :
              /\ p.id = cycle[c].unbatched[1].id
              /\ req[r].row.created_at < p.created_at

-----------------------------------------------------------------------------
(* Properties of POST /api/prove at the end of the counter's range, under  *)
(* SpecOverflow.                                                           *)

\* C31: when an agent's counter is 2^31 - 1, the next issuance fails and
\* leaves the counter, the quota and the attestation table as they were; the
\* counter never wraps or decreases, and no number is given to two
\* attestations of an agent.
C31_CounterAtMaxFailsCleanly ==
    /\ [][\A r \in Reqs :
            (req[r].pc = "begun" /\ proof_nonce[req[r].agent] = Int4Max /\ req'[r] # req[r])
                => /\ req'[r].pc = "failed"
                   /\ UNCHANGED dbVars]_vars
    /\ [][\A a \in Agents : proof_nonce'[a] >= proof_nonce[a]]_vars
    /\ [](\A a \in Agents : proof_nonce[a] >= 0 /\ proof_nonce[a] <= Int4Max)
    /\ [](\A p, q \in proofs : (p.agent_id = q.agent_id /\ p.nonce = q.nonce) => p = q)

\* the last number of the range was issued and a later request failed on the
\* increment
C31_Witness ==
    /\ \E p \in proofs : p.agent_id = "a1" /\ p.nonce = Int4Max
    /\ \E r \in Reqs :
          /\ req[r].pc = "failed"
          /\ req[r].error = "integer out of range"
          /\ proof_nonce[req[r].agent] = Int4Max

-----------------------------------------------------------------------------
(* Properties of generateProof, under SpecGenerate.                        *)

\* a member of the serialized payload
PayloadMember(payload, k) ==
    payload[CHOOSE i \in 1..Len(payload) : payload[i][1] = k][2]

\* C38: the timestamp generateProof returns equals the ts member of the
\* payload it hashed and signed, however much time passes during the call.
C38_TimestampIsPayloadTs ==
    call.pc = "returned" =>
        call.out.timestamp = PayloadMember(call.payload, "ts")

====
